---- MODULE Spec2Model ----
(***************************************************************************)
(* fast-nginx: the provisioning run of bin/cli.js and of its two earlier   *)
(* variants (unnamed/part_001, the first program of unnamed/part_002),     *)
(* with the privileged file helpers of unnamed/part_003.                   *)
(*                                                                         *)
(* One process (the node main flow), the child processes it spawns         *)
(* (sudo tee, sudo ln, sudo rm), and the part of the filesystem the run    *)
(* reads and writes.  Text is a sequence of one-character strings.         *)
(***************************************************************************)
EXTENDS Integers, Sequences, FiniteSets, TLC

VARIABLES
    variant,    \* which program runs: "cli", "p1" (part_001), "p2" (part_002)
    opts,       \* program.opts(): the parsed command line
    host,       \* the machine: platform, uid, whether nginx is installed
    fs,         \* the filesystem under /etc/nginx
    fs0,        \* the filesystem when the current run started
    pc,         \* position of the main flow
    checks,     \* checkSystemRequirements: the checks collected so far
    nginxConfig,\* the rendered configuration (const nginxConfig)
    procs,      \* the child processes: tee, ln, rm
    link,       \* sudoLinkFsFile's parameters as bound by the call
    log,        \* the run's external effects and invocations, in order
    sslSuccess, \* let sslSuccess
    exitCode,   \* process exit status, read once pc = "exited"
    exitReason, \* which exit path was taken
    run,        \* number of the current run (1 ..)
    prev,       \* the previous run: its nginxConfig, exit status, final fs
    certbotCmd, \* const certbotCmd: the certbot command line that was executed
    input,      \* a function called on its own: its name and arguments
    result      \* what that call delivered

vars == <<variant, opts, host, fs, fs0, pc, checks, nginxConfig, procs, link, log,
          sslSuccess, exitCode, exitReason, run, prev, certbotCmd, input, result>>

----------------------------------------------------------------------------
(* Bounds *)

MaxRuns == 2

----------------------------------------------------------------------------
(* Values *)

Undefined == "undefined"
Absent == [kind |-> "absent"]
\* a missing nginx.conf, and the value of nginxConfig before rendering
NoConf == [exists |-> FALSE, text |-> <<>>]
Conf(t) == [exists |-> TRUE, text |-> t]
NoConfig == [kind |-> "none"]

File(c) == [kind |-> "file", content |-> c]
Symlink(t) == [kind |-> "symlink", target |-> t]

\* const sitesAvailable / sitesEnabled: the two paths of the run's domain
sitesAvailable == "/etc/nginx/sites-available/<domain>"
sitesEnabled == "/etc/nginx/sites-enabled/<domain>"
SitePaths == {sitesAvailable, sitesEnabled}

\* the literal first argument cli.js hands to the file helpers
CodeWrite == "fs.writeFileSync"
CodeLink == "fs.symlinkSync"

\* the arrow function cli.js passes as the last argument of sudoLinkFsFile
LinkCallback == "function:linkCallback"

Digits == {"0", "1", "2", "3", "4", "5", "6", "7", "8", "9"}
Letters == {"a", "b", "c", "d", "e", "f", "g", "h", "i", "j", "k", "l", "m",
            "n", "o", "p", "q", "r", "s", "t", "u", "v", "w", "x", "y", "z",
            "A", "B", "C", "D", "E", "F", "G", "H", "I", "J", "K", "L", "M",
            "N", "O", "P", "Q", "R", "S", "T", "U", "V", "W", "X", "Y", "Z"}

----------------------------------------------------------------------------
(* Validation functions *)

RECURSIVE SplitDot(_)
\* the maximal dot-free pieces of s, in order
SplitDot(s) ==
    IF \A i \in 1..Len(s) : s[i] # "."
    THEN <<s>>
    ELSE LET k == CHOOSE i \in 1..Len(s) :
                      s[i] = "." /\ \A j \in 1..(i - 1) : s[j] # "."
         IN <<SubSeq(s, 1, k - 1)>> \o SplitDot(SubSeq(s, k + 1, Len(s)))

IsAlnum(ch) == ch \in Letters \cup Digits

\* a label pattern that lets the hyphen stand first or last as well
LabelMatches_HyphenAnywhere(l) ==
    /\ Len(l) >= 2
    /\ Len(l) <= 63
    /\ \A i \in 1..Len(l) : IsAlnum(l[i]) \/ l[i] = "-"

\* [a-zA-Z0-9][a-zA-Z0-9-]{0,61}[a-zA-Z0-9]
LabelMatches(l) ==
    /\ Len(l) >= 2
    /\ Len(l) <= 63
    /\ IsAlnum(l[1])
    /\ IsAlnum(l[Len(l)])
    /\ \A i \in 2..(Len(l) - 1) : IsAlnum(l[i]) \/ l[i] = "-"

\* ^label(?:\.label)*$
validateDomain(domain) ==
    \A i \in 1..Len(SplitDot(domain)) : LabelMatches(SplitDot(domain)[i])

DigitVal(ch) ==
    CASE ch = "0" -> 0 [] ch = "1" -> 1 [] ch = "2" -> 2 [] ch = "3" -> 3
      [] ch = "4" -> 4 [] ch = "5" -> 5 [] ch = "6" -> 6 [] ch = "7" -> 7
      [] ch = "8" -> 8 [] ch = "9" -> 9

RECURSIVE DigitsValue(_, _)
\* value of the longest digit prefix of s, continuing from acc
DigitsValue(s, acc) ==
    IF s = <<>> \/ Head(s) \notin Digits
    THEN acc
    ELSE DigitsValue(Tail(s), 10 * acc + DigitVal(Head(s)))

RECURSIVE SkipSpaces(_)
SkipSpaces(s) == IF s # <<>> /\ Head(s) = " " THEN SkipSpaces(Tail(s)) ELSE s

NaN == [nan |-> TRUE, val |-> 0]
Num(n) == [nan |-> FALSE, val |-> n]

\* Number.parseInt(port): leading blanks, an optional sign, then the longest
\* run of decimal digits; NaN if there is none.  What follows is ignored.
ParseInt(port) ==
    LET t == SkipSpaces(port)
        neg == t # <<>> /\ Head(t) = "-"
        u == IF t # <<>> /\ Head(t) \in {"-", "+"} THEN Tail(t) ELSE t
    IN IF u = <<>> \/ Head(u) \notin Digits
       THEN NaN
       ELSE IF neg THEN Num(0 - DigitsValue(u, 0)) ELSE Num(DigitsValue(u, 0))

\* portNum > 0 && portNum <= 65535 (false for NaN)
validatePort(port) ==
    LET portNum == ParseInt(port)
    IN ~portNum.nan /\ portNum.val > 0 /\ portNum.val <= 65535

IsPlainChar(ch) == ch \notin {" ", "@"}

\* /^[^\s@]+@[^\s@]+\.[^\s@]+$/
validateEmail(email) ==
    \E a \in 2..Len(email) :
        /\ email[a] = "@"
        /\ \A i \in 1..Len(email) : (i # a) => IsPlainChar(email[i])
        /\ \E d \in (a + 2)..(Len(email) - 1) : email[d] = "."

----------------------------------------------------------------------------
(* Templates *)

\* `# Generated on: ${new Date().toISOString()}`: the clock, one tick per run
Now == run

\* unnamed/part_002, generateBasicNginxConfigTemplate(options, domain, port)
generateBasicNginxConfigTemplate(o, domain, port) ==
    [header |-> "fast-nginx", kind |-> "basic", ts |-> Now,
     serverName |-> [domain |-> domain, www |-> o.www],
     upstreamHost |-> "127.0.0.1", port |-> port,
     listen443 |-> TRUE, certFiles |-> TRUE, cors |-> FALSE, tryFiles |-> FALSE]

\* unnamed/part_001, generateBasicTemplate(domain, port)
generateBasicTemplate(o, domain, port) ==
    [header |-> "FastNginx", kind |-> "basic", ts |-> Now,
     serverName |-> [domain |-> domain, www |-> o.www],
     upstreamHost |-> "localhost", port |-> port,
     listen443 |-> FALSE, certFiles |-> FALSE, cors |-> FALSE, tryFiles |-> FALSE]

\* unnamed/part_001, generateApiTemplate(domain, port)
generateApiTemplate(o, domain, port) ==
    [header |-> "FastNginx", kind |-> "api", ts |-> Now,
     serverName |-> [domain |-> domain, www |-> o.www],
     upstreamHost |-> "localhost", port |-> port,
     listen443 |-> FALSE, certFiles |-> FALSE, cors |-> TRUE, tryFiles |-> FALSE]

\* unnamed/part_001, generateSpaTemplate(domain, port)
generateSpaTemplate(o, domain, port) ==
    [header |-> "FastNginx", kind |-> "spa", ts |-> Now,
     serverName |-> [domain |-> domain, www |-> o.www],
     upstreamHost |-> "localhost", port |-> port,
     listen443 |-> FALSE, certFiles |-> FALSE, cors |-> FALSE, tryFiles |-> TRUE]

\* unnamed/part_002 (first program), generateNginxConfig(domain, port): no
\* "Generated on" line (ts 0), and www.<domain> always named
generateNginxConfig(domain, port) ==
    [header |-> "none", kind |-> "basic", ts |-> 0,
     serverName |-> [domain |-> domain, www |-> TRUE],
     upstreamHost |-> "localhost", port |-> port,
     listen443 |-> FALSE, certFiles |-> FALSE, cors |-> FALSE, tryFiles |-> FALSE]

\* bin/cli.js getTemplate: the templates object holds the basic entry only,
\* so templates[templateType] || templates.basic is the basic rendering
getTemplateCli(o, templateType, domain, port) ==
    generateBasicNginxConfigTemplate(o, domain, port)

\* unnamed/part_001 getTemplate
getTemplateP1(o, templateType, domain, port) ==
    CASE templateType = "api" -> generateApiTemplate(o, domain, port)
      [] templateType = "spa" -> generateSpaTemplate(o, domain, port)
      [] OTHER -> generateBasicTemplate(o, domain, port)

\* the rendering a variant writes
Render(v, o) ==
    CASE v = "cli" -> getTemplateCli(o, o.template, o.domain, o.port)
      [] v = "p1" -> getTemplateP1(o, o.template, o.domain, o.port)
      [] v = "p2" -> generateNginxConfig(o.domain, o.port)

----------------------------------------------------------------------------
(* Filesystem *)

\* fs.existsSync(path) for a site path: symbolic links are followed
SiteExists(f, p) ==
    LET o == f.site[p]
    IN \/ o.kind = "file"
       \/ /\ o.kind = "symlink"
          /\ o.target \in SitePaths
          /\ \/ f.site[o.target].kind = "file"
             \/ /\ f.site[o.target].kind = "symlink"
                /\ f.site[o.target].target \in SitePaths
                /\ f.site[f.site[o.target].target].kind = "file"

\* the directory that holds a site path
DirOf(f, p) == IF p = sitesAvailable THEN f.availDir ELSE f.enabledDir

SetSite(f, p, obj) == [f EXCEPT !.site[p] = obj]

\* nginxConf.includes("include /etc/nginx/sites-enabled/*")
HasInclude(text) == \E i \in 1..Len(text) : text[i] = "include"

\* nginxConf.replace(/(http\s*{[^}]*)/, "$1 ... include ...;"): the directive
\* goes after the first "http {" and the text up to the next "}"; a text
\* without "http {" is returned as it is
AddInclude(conf) ==
    IF \A i \in 1..Len(conf) : conf[i] # "http{"
    THEN conf
    ELSE LET k == CHOOSE i \in 1..Len(conf) :
                      conf[i] = "http{" /\ \A j \in 1..(i - 1) : conf[j] # "http{"
             e == CHOOSE i \in k..Len(conf) :
                      /\ \A j \in (k + 1)..i : conf[j] # "}"
                      /\ (i = Len(conf) \/ conf[i + 1] = "}")
         IN SubSeq(conf, 1, e) \o <<"include">> \o SubSeq(conf, e + 1, Len(conf))

----------------------------------------------------------------------------
(* Inputs *)

Variants == {"cli", "p1", "p2"}

DomainGood == <<"a", "b", ".", "c", "o">>
DomainBad == <<"-", "b", ".", "c", "o">>
Domains == {DomainGood, DomainBad}

PortGood == <<"8", "0">>
PortBad == <<"0">>
Ports == {PortGood, PortBad}

EmailGood == <<"a", "@", "b", ".", "c">>
EmailBad == <<"a", "@", "b">>
\* <<>>: no --email (options.email undefined)
Emails == {<<>>, EmailGood, EmailBad}

Templates == {"basic", "api", "spa"}

\* program.opts() of bin/cli.js and unnamed/part_001.  --no-reload makes
\* commander set `reload`; no option defines a key `noReload`, so
\* options.noReload is undefined (falsy) whatever the command line.
OptionsFull ==
    [domain : Domains, port : Ports, ssl : BOOLEAN, email : Emails,
     www : BOOLEAN, force : BOOLEAN, dryRun : BOOLEAN, template : Templates,
     reload : BOOLEAN, noReload : {FALSE}, yes : BOOLEAN]

\* program.opts() of the first program of unnamed/part_002: domain, port,
\* ssl, email and dry-run only; every other key is undefined
OptionsP2 ==
    [domain : Domains, port : Ports, ssl : BOOLEAN, email : Emails,
     www : {FALSE}, force : {FALSE}, dryRun : BOOLEAN, template : {"basic"},
     reload : {TRUE}, noReload : {FALSE}, yes : {FALSE}]

OptionsOf(v) == IF v = "p2" THEN OptionsP2 ELSE OptionsFull

ConfWithInclude == <<"events", "http{", "include", "}">>
ConfNoInclude == <<"events", "http{", "mime", "}">>
ConfNoHttp == <<"events">>
InitialConfs == {NoConf, Conf(ConfWithInclude), Conf(ConfNoInclude), Conf(ConfNoHttp)}

OldConfig == [header |-> "old", kind |-> "basic", ts |-> 0,
              serverName |-> [domain |-> DomainGood, www |-> FALSE],
              upstreamHost |-> "localhost",
              port |-> PortGood, listen443 |-> FALSE, certFiles |-> FALSE,
              cors |-> FALSE, tryFiles |-> FALSE]

\* what may be at a site path before the first run
InitialAvailable == {Absent, File(OldConfig)}
InitialEnabled == {Absent, Symlink(sitesAvailable), File(OldConfig)}

\* the filesystems a first run may find: /etc/nginx missing altogether, or
\* present with any of its parts missing; a site path needs its directory
InitialFs ==
    {f \in [nginxDir : BOOLEAN, availDir : BOOLEAN, enabledDir : BOOLEAN,
            conf : InitialConfs, backups : {<<>>},
            site : [SitePaths -> InitialAvailable \cup InitialEnabled]] :
        /\ f.site[sitesAvailable] \in InitialAvailable
        /\ f.site[sitesEnabled] \in InitialEnabled
        /\ (~f.nginxDir) => (~f.availDir /\ ~f.enabledDir /\ f.conf = NoConf)
        /\ (~f.availDir) => f.site[sitesAvailable] = Absent
        /\ (~f.enabledDir) => f.site[sitesEnabled] = Absent}

NoProc == [st |-> "none", code |-> "none", stderr |-> FALSE]
NoProcs == [tee |-> NoProc, ln |-> NoProc, rm |-> NoProc]
NoLink == [path1 |-> Undefined, path2 |-> Undefined, callback |-> Undefined]
NoPrev == [config |-> NoConfig, exitCode |-> 0, fs |-> fs]
\* no certbot command line was built
NoCommand == [sudo |-> FALSE, d |-> {}, email |-> <<>>, flags |-> {}]
\* the programs call their functions themselves: nothing is called on its own
NoInput == [fn |-> "none", text |-> <<>>, yes |-> FALSE]
NoResult == [type |-> "none", value |-> FALSE, read |-> FALSE]

Platforms == {"linux", "win32"}
Hosts == [platform : Platforms, isRoot : BOOLEAN, nginxInstalled : BOOLEAN]
ReadyHost == [platform |-> "linux", isRoot |-> TRUE, nginxInstalled |-> TRUE]

\* a filesystem with both directories and the include directive in place
ReadyFs == {f \in InitialFs :
               f.availDir /\ f.enabledDir /\ f.conf = Conf(ConfWithInclude)}

\* a filesystem without site files yet
FreshFs == {f \in InitialFs :
               f.site[sitesAvailable] = Absent /\ f.site[sitesEnabled] = Absent}

\* a plain request: only domain, dry-run and yes vary
PlainOptions ==
    {o \in OptionsFull :
        /\ o.port = PortGood /\ ~o.ssl /\ o.email = <<>> /\ ~o.www /\ ~o.force
        /\ o.template = "basic" /\ o.reload}

\* a dry-run request for a valid domain and port: every other flag varies
DryRunOptions ==
    {o \in OptionsFull :
        /\ o.dryRun /\ o.domain = DomainGood /\ o.port = PortGood
        /\ o.template = "basic" /\ o.reload}

\* The first run is drawn from three families: every request of every variant
\* on a prepared machine (where nothing is asked, so --yes is left out), a
\* plain request, with or without --yes, on every machine without site files,
\* and a dry run with any flags on every machine.
RequestScenario ==
    /\ variant \in Variants
    /\ opts \in {o \in OptionsOf(variant) : ~o.yes}
    /\ host = ReadyHost
    /\ fs \in ReadyFs

HostScenario ==
    /\ variant \in {"cli", "p1"}
    /\ opts \in PlainOptions
    /\ host \in Hosts
    /\ fs \in FreshFs

DryRunScenario ==
    /\ variant \in {"cli", "p1"}
    /\ opts \in DryRunOptions
    /\ host \in Hosts
    /\ fs \in InitialFs

\* nothing has run yet
FirstRun ==
    /\ fs0 = fs
    /\ pc = "start"
    /\ checks = <<>>
    /\ nginxConfig = NoConfig
    /\ procs = NoProcs
    /\ link = NoLink
    /\ log = <<>>
    /\ sslSuccess = FALSE
    /\ exitCode = 0
    /\ exitReason = Undefined
    /\ run = 1
    /\ prev = NoPrev
    /\ certbotCmd = NoCommand
    /\ input = NoInput
    /\ result = NoResult

\* a port that begins with digits, for bin/cli.js on a prepared machine
\* without site files
PortLoose == <<"8", "0", "a">>

LoosePortScenario ==
    /\ variant = "cli"
    /\ opts \in {[o EXCEPT !.port = PortLoose] :
                    o \in {p \in PlainOptions : p.domain = DomainGood /\ ~p.yes}}
    /\ host = ReadyHost
    /\ fs \in {f \in ReadyFs : f \in FreshFs}

Init ==
    /\ (RequestScenario \/ HostScenario \/ DryRunScenario \/ LoosePortScenario)
    /\ FirstRun

----------------------------------------------------------------------------
(* Exits *)

\* process.exit(code)
Exit(code, reason) ==
    /\ pc' = "exited"
    /\ exitCode' = code
    /\ exitReason' = reason

Alive == pc # "exited"

----------------------------------------------------------------------------
(* askUser *)

Answers == {<<"y">>, <<"y", "e", "s">>, <<"Y">>, <<"n">>, <<>>}

\* the letters that occur in the answers
LowerOf(ch) ==
    CASE ch = "Y" -> "y" [] ch = "E" -> "e" [] ch = "S" -> "s"
      [] ch = "N" -> "n" [] ch = "O" -> "o" [] OTHER -> ch

ToLowerCase(answer) == [i \in 1..Len(answer) |-> LowerOf(answer[i])]

\* answer.toLowerCase() === "y" || answer.toLowerCase() === "yes"
IsYes(answer) ==
    ToLowerCase(answer) = <<"y">> \/ ToLowerCase(answer) = <<"y", "e", "s">>

\* bin/cli.js askUser: the values the returned promise may resolve to
askUser(o) ==
    IF o.yes
    THEN {TRUE}
    ELSE {IsYes(a) : a \in Answers}

----------------------------------------------------------------------------
(* checkSystemRequirements (bin/cli.js, unnamed/part_001) *)

Check(name, status, message) ==
    [name |-> name, status |-> status, message |-> message]

Outcome(f, cs, l) == [fs |-> f, checks |-> cs, log |-> l]

\* operating system, permissions and `which nginx`: the checks pushed on
\* host h (process.getuid is undefined on win32)
EnvChecks(o, h) ==
    <<IF h.platform = "win32"
      THEN Check("Operating System", "error", "Windows is not supported")
      ELSE Check("Operating System", "ok", h.platform)>>
    \o (IF h.platform # "win32" /\ ~h.isRoot /\ ~o.dryRun
        THEN <<Check("Permissions", "warning", "Not running as root")>>
        ELSE IF ~o.dryRun
        THEN <<Check("Permissions", "ok", "Running with sufficient privileges")>>
        ELSE <<>>)
    \o <<IF h.nginxInstalled
         THEN Check("Nginx", "ok", "Installed")
         ELSE Check("Nginx", "error", "Not installed")>>

\* DirCheck without the dry-run branch: a missing directory is asked about
\* and created in a dry run too
DirCheck_IgnoresDryRun(f, o, dir, name) ==
    IF f[dir]
    THEN {Outcome(f, <<Check(name, "ok", "Directory exists")>>, <<>>)}
    ELSE UNION {
        IF shouldCreate
        THEN {Outcome([f EXCEPT ![dir] = TRUE],
                      <<Check(name, "ok", "Directory created")>>,
                      <<"ask:yes", "mkdir">>),
              Outcome(f, <<Check(name, "error", "Failed to create directory")>>,
                      <<"ask:yes">>)}
        ELSE {Outcome(f, <<Check(name, "error", "Directory missing and not created")>>,
                      <<"ask:no">>)}
        : shouldCreate \in askUser(o)}

\* DirCheck that creates a missing directory without consulting askUser
DirCheck_CreatesUnasked(f, o, dir, name) ==
    IF f[dir]
    THEN {Outcome(f, <<Check(name, "ok", "Directory exists")>>, <<>>)}
    ELSE IF o.dryRun
    THEN {Outcome(f, <<Check(name, "warning", "Directory missing (would create)")>>, <<>>)}
    ELSE {Outcome([f EXCEPT ![dir] = TRUE],
                  <<Check(name, "ok", "Directory created")>>, <<"mkdir">>),
          Outcome(f, <<Check(name, "error", "Failed to create directory")>>, <<>>)}

\* the sites-available / sites-enabled directory check; dir names the
\* directory's field of fs
DirCheck(f, o, dir, name) ==
    IF f[dir]
    THEN {Outcome(f, <<Check(name, "ok", "Directory exists")>>, <<>>)}
    ELSE IF o.dryRun
    THEN {Outcome(f, <<Check(name, "warning", "Directory missing (would create)")>>, <<>>)}
    ELSE UNION {
        IF shouldCreate
        THEN {Outcome([f EXCEPT ![dir] = TRUE],
                      <<Check(name, "ok", "Directory created")>>,
                      <<"ask:yes", "mkdir">>),
              Outcome(f, <<Check(name, "error", "Failed to create directory")>>,
                      <<"ask:yes">>)}
        ELSE {Outcome(f, <<Check(name, "error", "Directory missing and not created")>>,
                      <<"ask:no">>)}
        : shouldCreate \in askUser(o)}

\* the include-directive check that rewrites nginx.conf without the backup
IncludeCheck_NoBackup(f, o) ==
    LET name == "Nginx include directive"
        nginxConf == f.conf.text
        updatedConf == AddInclude(nginxConf)
    IN IF ~f.conf.exists
       THEN {Outcome(f, <<>>, <<>>)}
       ELSE {Outcome(f, <<Check(name, "error", "Cannot read nginx.conf")>>, <<>>)}
            \cup
            (IF HasInclude(nginxConf)
             THEN {Outcome(f, <<Check(name, "ok", "Present in nginx.conf")>>, <<>>)}
             ELSE IF o.dryRun
             THEN {Outcome(f, <<Check(name, "warning", "sites-enabled include missing (would add)")>>, <<>>)}
             ELSE UNION {
                 IF shouldAdd
                 THEN {Outcome([f EXCEPT !.conf = Conf(updatedConf)],
                               <<Check(name, "ok", "Added to nginx.conf")>>,
                               <<"ask:yes", "write:nginx.conf">>),
                       Outcome(f,
                               <<Check(name, "error", "Failed to update nginx.conf")>>,
                               <<"ask:yes">>)}
                 ELSE {Outcome(f, <<Check(name, "warning", "Include directive not added")>>,
                               <<"ask:no">>)}
                 : shouldAdd \in askUser(o)})

\* the include-directive check of nginx.conf
IncludeCheck(f, o) ==
    LET name == "Nginx include directive"
        nginxConf == f.conf.text
        updatedConf == AddInclude(nginxConf)
        backedUp == [f EXCEPT !.backups = Append(@, nginxConf)]
    IN IF ~f.conf.exists
       THEN {Outcome(f, <<>>, <<>>)}
       ELSE {Outcome(f, <<Check(name, "error", "Cannot read nginx.conf")>>, <<>>)}
            \cup
            (IF HasInclude(nginxConf)
             THEN {Outcome(f, <<Check(name, "ok", "Present in nginx.conf")>>, <<>>)}
             ELSE IF o.dryRun
             THEN {Outcome(f, <<Check(name, "warning", "sites-enabled include missing (would add)")>>, <<>>)}
             ELSE UNION {
                 IF shouldAdd
                 THEN {Outcome([backedUp EXCEPT !.conf = Conf(updatedConf)],
                               <<Check(name, "ok", "Added to nginx.conf")>>,
                               <<"ask:yes", "write:backup", "write:nginx.conf">>),
                       Outcome(backedUp,
                               <<Check(name, "error", "Failed to update nginx.conf")>>,
                               <<"ask:yes", "write:backup">>),
                       Outcome(f,
                               <<Check(name, "error", "Failed to update nginx.conf")>>,
                               <<"ask:yes">>)}
                 ELSE {Outcome(f, <<Check(name, "warning", "Include directive not added")>>,
                               <<"ask:no">>)}
                 : shouldAdd \in askUser(o)})

\* the whole function: every (filesystem, checks, effects) it may end with
checkSystemRequirements(f, o, h) ==
    LET env == EnvChecks(o, h)
    IN IF ~f.nginxDir
       THEN {Outcome(f, env \o <<Check("Nginx Configuration", "error",
                                      "Nginx config directory not found")>>, <<>>)}
       ELSE UNION {UNION {
                {Outcome(c.fs, env \o a.checks \o b.checks \o c.checks,
                         a.log \o b.log \o c.log)
                 : c \in IncludeCheck(b.fs, o)}
                : b \in DirCheck(a.fs, o, "enabledDir", "Nginx sites-enabled")}
                : a \in DirCheck(f, o, "availDir", "Nginx sites-available")}

HasCheckError(cs) == \E i \in 1..Len(cs) : cs[i].status = "error"

\* setupNginxServerBlock: `const systemChecks = await checkSystemRequirements()`
SystemCheck ==
    /\ pc = "start"
    /\ variant \in {"cli", "p1"}
    /\ \E r \in checkSystemRequirements(fs, opts, host) :
        /\ fs' = r.fs
        /\ checks' = r.checks
        /\ log' = log \o r.log
    /\ pc' = "report"
    /\ UNCHANGED <<variant, opts, host, input, result, certbotCmd, fs0, nginxConfig, procs, link,
                   sslSuccess, exitCode, exitReason, run, prev>>

\* the report that aborts on an error whether or not dry-run is set
ReportChecks_AbortsDryRun ==
    /\ pc = "report"
    /\ log' = Append(log, "print:checks")
    /\ IF HasCheckError(checks)
       THEN Exit(1, "syscheck") /\ UNCHANGED checks
       ELSE /\ pc' = "validate"
            /\ checks' = <<>>
            /\ UNCHANGED <<exitCode, exitReason>>
    /\ UNCHANGED <<variant, opts, host, input, result, certbotCmd, fs, fs0, nginxConfig, procs, link,
                   sslSuccess, run, prev>>

\* the checks are printed; any error aborts the run unless dry-run
ReportChecks ==
    /\ pc = "report"
    /\ log' = Append(log, "print:checks")
    /\ IF HasCheckError(checks) /\ ~opts.dryRun
       THEN Exit(1, "syscheck") /\ UNCHANGED checks
       ELSE /\ pc' = "validate"
            /\ checks' = <<>>
            /\ UNCHANGED <<exitCode, exitReason>>
    /\ UNCHANGED <<variant, opts, host, input, result, certbotCmd, fs, fs0, nginxConfig, procs, link,
                   sslSuccess, run, prev>>

----------------------------------------------------------------------------
(* Input validation, rendering, dry-run *)

\* the first program of unnamed/part_002 has no system check
StartP2 ==
    /\ pc = "start"
    /\ variant = "p2"
    /\ pc' = "validate"
    /\ UNCHANGED <<variant, opts, host, input, result, certbotCmd, fs, fs0, checks, nginxConfig, procs, link,
                   log, sslSuccess, exitCode, exitReason, run, prev>>

\* which validation rejects the request, "" if none; part_002 does not
\* validate the email's syntax
\* a validation that never looks at the email
ValidationError_NoEmailCheck(v, o) ==
    IF ~validateDomain(o.domain) THEN "domain"
    ELSE IF ~validatePort(o.port) THEN "port"
    ELSE ""

ValidationError(v, o) ==
    IF ~validateDomain(o.domain) THEN "domain"
    ELSE IF ~validatePort(o.port) THEN "port"
    ELSE IF o.ssl /\ o.email = <<>> THEN "email-required"
    ELSE IF v # "p2" /\ o.ssl /\ o.email # <<>> /\ ~validateEmail(o.email)
    THEN "email-invalid"
    ELSE ""

Validate ==
    /\ pc = "validate"
    /\ IF ValidationError(variant, opts) # ""
       THEN /\ Exit(1, ValidationError(variant, opts))
            /\ UNCHANGED nginxConfig
       ELSE /\ nginxConfig' = Render(variant, opts)
            /\ pc' = "rendered"
            /\ UNCHANGED <<exitCode, exitReason>>
    /\ UNCHANGED <<variant, opts, host, input, result, certbotCmd, fs, fs0, checks, procs, link, log,
                   sslSuccess, run, prev>>

\* if (dryRun) { ... return; }
DryRunListing ==
    /\ pc = "rendered"
    /\ opts.dryRun
    /\ log' = log \o <<"print:dry-run">>
              \o (IF ~opts.noReload THEN <<"print:would-reload">> ELSE <<>>)
    /\ pc' = "returned"
    /\ UNCHANGED <<variant, opts, host, input, result, certbotCmd, fs, fs0, checks, nginxConfig, procs, link,
                   sslSuccess, exitCode, exitReason, run, prev>>

\* the event loop is empty: node exits with process.exitCode (0)
NaturalExit ==
    /\ pc = "returned"
    /\ \A p \in {"tee", "ln", "rm"} : procs[p].st \in {"none", "handled"}
    /\ Exit(0, "done")
    /\ UNCHANGED <<variant, opts, host, input, result, certbotCmd, fs, fs0, checks, nginxConfig, procs, link,
                   log, sslSuccess, run, prev>>

----------------------------------------------------------------------------
(* Conflict check *)

\* the conflict check without its test of the existing file: the run always
\* goes on to write
ConflictCheck_Overwrites ==
    /\ pc = "rendered"
    /\ ~opts.dryRun
    /\ IF variant = "p2" /\ ~fs.availDir
       THEN Exit(1, "no-sites-available")
       ELSE pc' = "write" /\ UNCHANGED <<exitCode, exitReason>>
    /\ UNCHANGED <<variant, opts, host, input, result, certbotCmd, fs, fs0, checks, nginxConfig, procs, link,
                   log, sslSuccess, run, prev>>

\* the conflict check with a prompt: an existing file without --force is put
\* to askUser, a yes goes on to write, a no ends the run with status 0
ConflictCheck_AsksUser ==
    /\ pc = "rendered"
    /\ ~opts.dryRun
    /\ IF variant = "p2" /\ ~fs.availDir
       THEN Exit(1, "no-sites-available") /\ UNCHANGED log
       ELSE IF SiteExists(fs, sitesAvailable) /\ ~opts.force
       THEN \E overwrite \in askUser(opts) :
               IF overwrite
               THEN /\ log' = Append(log, "ask:yes")
                    /\ pc' = "write"
                    /\ UNCHANGED <<exitCode, exitReason>>
               ELSE /\ log' = Append(log, "ask:no")
                    /\ Exit(0, "exists")
       ELSE pc' = "write" /\ UNCHANGED <<log, exitCode, exitReason>>
    /\ UNCHANGED <<variant, opts, host, input, result, certbotCmd, fs, fs0, checks, nginxConfig, procs, link,
                   sslSuccess, run, prev>>

\* "Check if config already exists".  part_002 first requires the
\* sites-available directory and knows no --force.
ConflictCheck ==
    /\ pc = "rendered"
    /\ ~opts.dryRun
    /\ IF variant = "p2" /\ ~fs.availDir
       THEN Exit(1, "no-sites-available")
       ELSE IF SiteExists(fs, sitesAvailable) /\ ~opts.force
       THEN Exit(1, "exists")
       ELSE pc' = "write" /\ UNCHANGED <<exitCode, exitReason>>
    /\ UNCHANGED <<variant, opts, host, input, result, certbotCmd, fs, fs0, checks, nginxConfig, procs, link,
                   log, sslSuccess, run, prev>>

----------------------------------------------------------------------------
(* unnamed/part_003: sudoWriteFsFile, as bin/cli.js calls it *)

Truncated == [kind |-> "truncated"]

\* what `tee filePath` leaves when it writes all of data; a symbolic link at
\* filePath is written through and stays
TeeWrites(f, filePath, data) ==
    IF f.site[filePath].kind = "symlink" THEN f ELSE SetSite(f, filePath, File(data))

\* what it leaves when it stops after opening (truncating) the file
TeeTruncates(f, filePath) ==
    IF f.site[filePath].kind = "symlink" THEN f ELSE SetSite(f, filePath, File(Truncated))

Proc(st, code, stderr) == [st |-> st, code |-> code, stderr |-> stderr]

\* await sudoWriteFsFile(`fs.writeFileSync`, sitesAvailable, nginxConfig, cb):
\* spawn("sudo", ["tee", filePath]), stdin.write(data), stdin.end()
WriteSpawn ==
    /\ pc = "write"
    /\ variant = "cli"
    /\ procs' = [procs EXCEPT !.tee = Proc("running", "none", FALSE)]
    /\ log' = Append(log, "spawn:tee")
    /\ pc' = "awaitWrite"
    /\ UNCHANGED <<variant, opts, host, input, result, certbotCmd, fs, fs0, checks, nginxConfig, link,
                   sslSuccess, exitCode, exitReason, run, prev>>

\* the sudo tee child: it writes the file and exits 0 (sudo may still have
\* written a warning to stderr), or fails leaving the file untouched or
\* truncated, or cannot be spawned
TeeChild ==
    /\ procs.tee.st = "running"
    /\ \/ /\ DirOf(fs, sitesAvailable)
          /\ fs' = TeeWrites(fs, sitesAvailable, nginxConfig)
          /\ \E warn \in BOOLEAN :
                procs' = [procs EXCEPT !.tee = Proc("done", "0", warn)]
       \/ /\ UNCHANGED fs
          /\ \E r \in {Proc("done", "1", TRUE), Proc("done", "signal", FALSE),
                       Proc("done", "spawnerr", FALSE)} :
                procs' = [procs EXCEPT !.tee = r]
       \/ /\ DirOf(fs, sitesAvailable)
          /\ fs' = TeeTruncates(fs, sitesAvailable)
          /\ \E r \in {Proc("done", "1", TRUE), Proc("done", "signal", FALSE)} :
                procs' = [procs EXCEPT !.tee = r]
    /\ UNCHANGED <<variant, opts, host, input, result, certbotCmd, fs0, pc, checks, nginxConfig, link, log,
                   sslSuccess, exitCode, exitReason, run, prev>>

\* the handlers without the stderr listener: the outcome is the exit code's
WriteDone_IgnoresStderr ==
    /\ pc = "awaitWrite"
    /\ procs.tee.st = "done"
    /\ procs' = [procs EXCEPT !.tee.st = "handled"]
    /\ IF procs.tee.code = "0"
       THEN /\ pc' = "link"
            /\ log' = Append(log, "print:written")
            /\ UNCHANGED <<exitCode, exitReason>>
       ELSE Exit(1, "write-failed") /\ UNCHANGED log
    /\ UNCHANGED <<variant, opts, host, input, result, certbotCmd, fs, fs0, checks, nginxConfig, link,
                   sslSuccess, run, prev>>

\* the handlers of the tee child, run while the main flow awaits:
\* stderr 'data' -> callback(data), whose err is truthy: process.exit(1);
\* 'close' with 0 -> resolve(); 'close' with another code or 'error' ->
\* callback(reject(..)) calls back with undefined and the awaiting flow
\* throws into its catch block: process.exit(1)
WriteDone ==
    /\ pc = "awaitWrite"
    /\ procs.tee.st = "done"
    /\ procs' = [procs EXCEPT !.tee.st = "handled"]
    /\ IF procs.tee.stderr
       THEN Exit(1, "write-stderr") /\ UNCHANGED log
       ELSE IF procs.tee.code = "0"
       THEN /\ pc' = "link"
            /\ log' = Append(log, "print:written")
            /\ UNCHANGED <<exitCode, exitReason>>
       ELSE Exit(1, "write-failed") /\ UNCHANGED log
    /\ UNCHANGED <<variant, opts, host, input, result, certbotCmd, fs, fs0, checks, nginxConfig, link,
                   sslSuccess, run, prev>>

----------------------------------------------------------------------------
(* unnamed/part_003: sudoLinkFsFile, as bin/cli.js calls it *)

\* async function sudoLinkFsFile(path1, path2, callback): the parameters
\* bound, by position, to the arguments of a call
BindLinkParams(args) ==
    [path1 |-> args[1], path2 |-> args[2], callback |-> args[3]]

\* bin/cli.js: sudoLinkFsFile(`fs.symlinkSync`, sitesAvailable, sitesEnabled, (err) => ..)
LinkCallArgs == <<CodeLink, sitesAvailable, sitesEnabled, LinkCallback>>

\* `await sudoLinkFsFile(..)`: the async function spawns `sudo ln -s path1
\* path2`, registers its handlers and returns; its promise is resolved at
\* once, so the main flow goes on while the child runs
LinkSpawn ==
    /\ pc = "link"
    /\ variant = "cli"
    /\ link' = BindLinkParams(LinkCallArgs)
    /\ procs' = [procs EXCEPT !.ln = Proc("running", "none", FALSE)]
    /\ log' = log \o <<"spawn:ln", "print:link-created">>
    /\ pc' = "test"
    /\ UNCHANGED <<variant, opts, host, input, result, certbotCmd, fs, fs0, checks, nginxConfig,
                   sslSuccess, exitCode, exitReason, run, prev>>

\* exit codes of a child that failed for a reason of its own (sudo refused,
\* killed by a signal, sudo not found)
LnFailures == {"1", "2", "signal", "spawnerr"}

\* the `sudo ln -s path1 path2` child: it creates the link if nothing is at
\* path2, and exits 1 if something is; it runs on if the parent has exited
LnChild ==
    /\ procs.ln.st = "running"
    /\ \/ /\ link.path2 \in SitePaths
          /\ DirOf(fs, link.path2)
          /\ fs.site[link.path2].kind = "absent"
          /\ fs' = SetSite(fs, link.path2, Symlink(link.path1))
          /\ procs' = [procs EXCEPT !.ln = Proc("done", "0", FALSE)]
       \/ /\ UNCHANGED fs
          /\ \E c \in LnFailures :
                procs' = [procs EXCEPT !.ln = Proc("done", c, c = "1")]
    /\ UNCHANGED <<variant, opts, host, input, result, certbotCmd, fs0, pc, checks, nginxConfig, link, log,
                   sslSuccess, exitCode, exitReason, run, prev>>

\* callback(err) inside an event handler.  The (err) => {..} of cli.js exits 1
\* on an error and does nothing on null; a callback that is no function
\* throws a TypeError, which the uncaughtException handler turns into exit 1.
InvokeCallback(isError) ==
    /\ log' = Append(log, IF isError THEN "callback:error" ELSE "callback:null")
    /\ IF link.callback = LinkCallback
       THEN IF isError
            THEN Exit(1, "link-failed")
            ELSE UNCHANGED <<pc, exitCode, exitReason>>
       ELSE Exit(1, "uncaught")

\* sudoProcess.on("close") and .on("error"), run once the main flow has
\* returned to the event loop
LnClose ==
    /\ pc = "returned"
    /\ procs.ln.st = "done"
    /\ CASE procs.ln.code = "0" ->
              /\ InvokeCallback(FALSE)
              /\ procs' = [procs EXCEPT !.ln.st = "handled"]
         [] procs.ln.code = "1" ->
              /\ procs' = [procs EXCEPT !.ln.st = "handled",
                                        !.rm = Proc("running", "none", FALSE)]
              /\ log' = Append(log, "spawn:rm")
              /\ UNCHANGED <<pc, exitCode, exitReason>>
         [] procs.ln.code = "spawnerr" ->
              /\ InvokeCallback(TRUE)
              /\ procs' = [procs EXCEPT !.ln.st = "handled"]
         [] OTHER ->
              /\ procs' = [procs EXCEPT !.ln.st = "handled"]
              /\ UNCHANGED <<pc, exitCode, exitReason, log>>
    /\ UNCHANGED <<variant, opts, host, input, result, certbotCmd, fs, fs0, checks, nginxConfig, link,
                   sslSuccess, run, prev>>

\* the `sudo rm path2` child: it runs on if the parent has exited
RmChild ==
    /\ procs.rm.st = "running"
    /\ \/ /\ link.path2 \in SitePaths
          /\ fs.site[link.path2].kind # "absent"
          /\ fs' = SetSite(fs, link.path2, Absent)
          /\ procs' = [procs EXCEPT !.rm = Proc("done", "0", FALSE)]
       \/ /\ UNCHANGED fs
          /\ \E c \in {"1", "spawnerr"} :
                procs' = [procs EXCEPT !.rm = Proc("done", c, c = "1")]
    /\ UNCHANGED <<variant, opts, host, input, result, certbotCmd, fs0, pc, checks, nginxConfig, link, log,
                   sslSuccess, exitCode, exitReason, run, prev>>

\* removeProcess.on("close"): rmCode 0 calls sudoLinkFsFile again, any other
\* code calls back with an error; removeProcess has no "error" handler, so a
\* failed spawn is an uncaught exception
RmClose ==
    /\ pc = "returned"
    /\ procs.rm.st = "done"
    /\ CASE procs.rm.code = "0" ->
              /\ procs' = [procs EXCEPT !.rm.st = "handled",
                                        !.ln = Proc("running", "none", FALSE)]
              /\ log' = Append(log, "spawn:ln")
              /\ UNCHANGED <<pc, exitCode, exitReason>>
         [] procs.rm.code = "spawnerr" ->
              /\ Exit(1, "uncaught")
              /\ procs' = [procs EXCEPT !.rm.st = "handled"]
              /\ UNCHANGED log
         [] OTHER ->
              /\ InvokeCallback(TRUE)
              /\ procs' = [procs EXCEPT !.rm.st = "handled"]
    /\ UNCHANGED <<variant, opts, host, input, result, certbotCmd, fs, fs0, checks, nginxConfig, link,
                   sslSuccess, run, prev>>

----------------------------------------------------------------------------
(* unnamed/part_001 and part_002: write and link with fs.*Sync *)

\* fs.writeFileSync(sitesAvailable, nginxConfig, "utf8"); a throw lands in the
\* catch block of setupNginxServerBlock: process.exit(1)
WriteSync ==
    /\ pc = "write"
    /\ variant \in {"p1", "p2"}
    /\ \/ /\ DirOf(fs, sitesAvailable)
          /\ fs' = TeeWrites(fs, sitesAvailable, nginxConfig)
          /\ log' = Append(log, "write:available")
          /\ pc' = "link"
          /\ UNCHANGED <<exitCode, exitReason>>
       \/ /\ Exit(1, "error")
          /\ UNCHANGED <<fs, log>>
    /\ UNCHANGED <<variant, opts, host, input, result, certbotCmd, fs0, checks, nginxConfig, procs, link,
                   sslSuccess, run, prev>>

\* the link step that leaves whatever is at sitesEnabled in place:
\* if (!fs.existsSync(sitesEnabled)) fs.symlinkSync(sitesAvailable, sitesEnabled);
LinkSync_KeepsExisting ==
    /\ pc = "link"
    /\ variant \in {"p1", "p2"}
    /\ \/ /\ Exit(1, "error")
          /\ UNCHANGED <<fs, log>>
       \/ /\ SiteExists(fs, sitesEnabled)
          /\ pc' = "test"
          /\ UNCHANGED <<fs, log, exitCode, exitReason>>
       \/ /\ ~SiteExists(fs, sitesEnabled)
          /\ DirOf(fs, sitesEnabled)
          /\ fs.site[sitesEnabled].kind = "absent"
          /\ fs' = SetSite(fs, sitesEnabled, Symlink(sitesAvailable))
          /\ log' = Append(log, "symlink:enabled")
          /\ pc' = "test"
          /\ UNCHANGED <<exitCode, exitReason>>
    /\ UNCHANGED <<variant, opts, host, input, result, certbotCmd, fs0, checks, nginxConfig, procs, link,
                   sslSuccess, run, prev>>

\* if (fs.existsSync(sitesEnabled)) fs.unlinkSync(sitesEnabled);
\* fs.symlinkSync(sitesAvailable, sitesEnabled);
\* either call may throw; symlinkSync throws if something is at sitesEnabled
LinkSync ==
    /\ pc = "link"
    /\ variant \in {"p1", "p2"}
    /\ LET unlinks == SiteExists(fs, sitesEnabled)
           unlinked == IF unlinks THEN SetSite(fs, sitesEnabled, Absent) ELSE fs
       IN \/ /\ unlinks
             /\ Exit(1, "error")
             /\ UNCHANGED <<fs, log>>
          \/ /\ Exit(1, "error")
             /\ fs' = unlinked
             /\ log' = log \o (IF unlinks THEN <<"unlink:enabled">> ELSE <<>>)
          \/ /\ DirOf(fs, sitesEnabled)
             /\ unlinked.site[sitesEnabled].kind = "absent"
             /\ fs' = SetSite(unlinked, sitesEnabled, Symlink(sitesAvailable))
             /\ log' = log \o (IF unlinks THEN <<"unlink:enabled">> ELSE <<>>)
                           \o <<"symlink:enabled">>
             /\ pc' = "test"
             /\ UNCHANGED <<exitCode, exitReason>>
    /\ UNCHANGED <<variant, opts, host, input, result, certbotCmd, fs0, checks, nginxConfig, procs, link,
                   sslSuccess, run, prev>>

----------------------------------------------------------------------------
(* Configuration test, reload *)

\* bin/cli.js: execSync(" sudo nginx -t"); on failure process.exit(1)
NginxTestCli ==
    /\ pc = "test"
    /\ variant = "cli"
    /\ log' = Append(log, "exec:nginx-t")
    /\ \E passed \in BOOLEAN :
          IF passed
          THEN pc' = "ssl" /\ UNCHANGED <<exitCode, exitReason>>
          ELSE Exit(1, "nginx-t")
    /\ UNCHANGED <<variant, opts, host, input, result, certbotCmd, fs, fs0, checks, nginxConfig, procs, link,
                   sslSuccess, run, prev>>

\* the cleanup of part_001 and part_002 after a failed test:
\* if (existsSync(sitesEnabled)) unlinkSync(sitesEnabled);
\* if (existsSync(sitesAvailable)) unlinkSync(sitesAvailable);
\* the filesystems it may leave (an unlinkSync may throw)
Cleanup(f) ==
    LET a == IF SiteExists(f, sitesEnabled) THEN SetSite(f, sitesEnabled, Absent) ELSE f
        b == IF SiteExists(a, sitesAvailable) THEN SetSite(a, sitesAvailable, Absent) ELSE a
    IN {b} \cup (IF SiteExists(f, sitesEnabled) THEN {f} ELSE {})
           \cup (IF SiteExists(a, sitesAvailable) THEN {a} ELSE {})

\* part_001, part_002: execSync("nginx -t"); on failure clean up and exit 1
NginxTestSync ==
    /\ pc = "test"
    /\ variant \in {"p1", "p2"}
    /\ \E passed \in BOOLEAN :
          IF passed
          THEN /\ pc' = "reload"
               /\ log' = Append(log, "exec:nginx-t")
               /\ UNCHANGED <<fs, exitCode, exitReason>>
          ELSE /\ fs' \in Cleanup(fs)
               /\ log' = log \o <<"exec:nginx-t", "cleanup">>
               /\ Exit(1, "nginx-t")
    /\ UNCHANGED <<variant, opts, host, input, result, certbotCmd, fs0, checks, nginxConfig, procs, link,
                   sslSuccess, run, prev>>

\* part_001: if (!options.noReload) execSync("nginx -s reload"), a failure is
\* only reported; part_002: always, and a failure is process.exit(1)
Reload ==
    /\ pc = "reload"
    /\ IF variant = "p1" /\ opts.noReload
       THEN pc' = "ssl" /\ UNCHANGED <<log, exitCode, exitReason>>
       ELSE \E ok \in BOOLEAN :
               /\ log' = log \o <<"exec:reload">>
                             \o (IF ok THEN <<>> ELSE <<"print:reload-failed">>)
               /\ IF ok \/ variant = "p1"
                  THEN pc' = "ssl" /\ UNCHANGED <<exitCode, exitReason>>
                  ELSE Exit(1, "reload")
    /\ UNCHANGED <<variant, opts, host, input, result, certbotCmd, fs, fs0, checks, nginxConfig, procs, link,
                   sslSuccess, run, prev>>

----------------------------------------------------------------------------
(* setupSSL *)

\* the test that follows a successful certbot: bin/cli.js runs `sudo ginx -t`,
\* a command that does not exist, so the exec throws; part_001 and part_002
\* run `nginx -t`
SslTestResults(v) == IF v = "cli" THEN {FALSE} ELSE BOOLEAN
SslTestCommand(v) == IF v = "cli" THEN "exec:ginx-t" ELSE "exec:nginx-t"

\* which of /etc/debian_version and /etc/redhat-release the machine has
Markers == {"debian", "redhat", "both", "none"}

\* the existsSync probes made to pick a package manager, in order: the second
\* file is looked at only if the first is missing; part_002 probes nothing
ProbeMarkers(v, marker) ==
    IF v = "p2" THEN <<>>
    ELSE IF marker \in {"debian", "both"} THEN <<"probe:debian:yes">>
    ELSE IF marker = "redhat" THEN <<"probe:debian:no", "probe:redhat:yes">>
    ELSE <<"probe:debian:no", "probe:redhat:no">>

\* the package-manager command for the machine's markers, "" if none;
\* part_002 always uses apt
InstallCommand(v, marker) ==
    IF v = "p2" \/ marker \in {"debian", "both"} THEN "exec:apt-install"
    ELSE IF marker = "redhat" THEN "exec:yum-install"
    ELSE ""

\* `www.${domain}`
WwwName(domain) == <<"w", "w", "w", ".">> \o domain

\* a certbot line that names the www host whether or not it was asked for
CertbotCommand_AlwaysWww(v, o) ==
    [sudo |-> v = "cli",
     d |-> {o.domain, WwwName(o.domain)},
     email |-> o.email,
     flags |-> {"--nginx", "--agree-tos", "--non-interactive", "--redirect"}]

\* the certbot command line: which -d names and which flags it carries
CertbotCommand(v, o) ==
    [sudo |-> v = "cli",
     d |-> IF v = "p2" \/ o.www THEN {o.domain, WwwName(o.domain)} ELSE {o.domain},
     email |-> o.email,
     flags |-> {"--nginx", "--agree-tos", "--non-interactive", "--redirect"}]

\* what is printed when the installation throws: bin/cli.js and part_001
\* catch it next to the installation, part_002 in the outer handler
InstallFailed(v) == IF v = "p2" THEN "print:ssl-failed" ELSE "print:install-failed"

\* certbot has exited 0 and has rewritten the site's configuration, which
\* nginx would accept or not: noted in the log next to the test command
ConfigAfterCertbot(valid) == IF valid THEN "env:config-valid" ELSE "env:config-invalid"

\* from "Build certbot command" on: build the line, execute it, then test
RunCertbot(v, o) ==
    {[ok |-> FALSE, log |-> <<"exec:certbot", "print:ssl-failed">>,
      cmd |-> CertbotCommand(v, o)]}
    \cup UNION {{[ok |-> r,
                  log |-> <<"exec:certbot", ConfigAfterCertbot(valid), SslTestCommand(v)>>
                          \o (IF r THEN <<>> ELSE <<"print:ssl-failed">>),
                  cmd |-> CertbotCommand(v, o)]
                 : r \in {x \in SslTestResults(v) : v = "cli" \/ x = valid}}
                : valid \in BOOLEAN}

\* an installation branch that goes on to certbot although the installation
\* failed or no package manager was found
InstallCertbot_GoesOn(v, o, marker) ==
    LET probed == <<"exec:which-certbot">> \o ProbeMarkers(v, marker)
        tried == IF InstallCommand(v, marker) = "" THEN <<>>
                 ELSE <<InstallCommand(v, marker)>>
    IN {[ok |-> x.ok,
         log |-> probed \o tried \o <<InstallFailed(v)>> \o x.log,
         cmd |-> x.cmd] : x \in RunCertbot(v, o)}
       \cup {[ok |-> x.ok, log |-> probed \o tried \o x.log, cmd |-> x.cmd]
             : x \in RunCertbot(v, o)}

\* the installation branch: probe, install, and go on only if that succeeded
InstallCertbot(v, o, marker) ==
    LET probed == <<"exec:which-certbot">> \o ProbeMarkers(v, marker)
    IN IF InstallCommand(v, marker) = ""
       THEN {[ok |-> FALSE, log |-> probed \o <<InstallFailed(v)>>,
              cmd |-> NoCommand]}
       ELSE {[ok |-> FALSE,
              log |-> probed \o <<InstallCommand(v, marker), InstallFailed(v)>>,
              cmd |-> NoCommand]}
            \cup {[ok |-> x.ok,
                   log |-> probed \o <<InstallCommand(v, marker)>> \o x.log,
                   cmd |-> x.cmd] : x \in RunCertbot(v, o)}

\* setupSSL(domain, email): the (result, invocations, command line) it may
\* end with
setupSSL(v, o) ==
    {[ok |-> x.ok, log |-> <<"exec:which-certbot">> \o x.log, cmd |-> x.cmd]
        : x \in RunCertbot(v, o)}
    \cup UNION {InstallCertbot(v, o, marker) : marker \in Markers}

\* setupSSL is called whether or not --ssl was given
SetupSSL_Always ==
    /\ pc = "ssl"
    /\ \E r \in setupSSL(variant, opts) :
          /\ sslSuccess' = r.ok
          /\ log' = log \o r.log
          /\ certbotCmd' = r.cmd
    /\ pc' = "summary"
    /\ UNCHANGED <<variant, opts, host, input, result, fs, fs0, checks, nginxConfig,
                   procs, link, exitCode, exitReason, run, prev>>

\* let sslSuccess = false; if (options.ssl) sslSuccess = await setupSSL(..)
SetupSSL ==
    /\ pc = "ssl"
    /\ IF opts.ssl
       THEN \E r \in setupSSL(variant, opts) :
               /\ sslSuccess' = r.ok
               /\ log' = log \o r.log
               /\ certbotCmd' = r.cmd
       ELSE UNCHANGED <<sslSuccess, log, certbotCmd>>
    /\ pc' = "summary"
    /\ UNCHANGED <<variant, opts, host, input, result, fs, fs0, checks, nginxConfig,
                   procs, link, exitCode, exitReason, run, prev>>

\* the success message and summary; the function returns
Summary ==
    /\ pc = "summary"
    /\ log' = log \o <<"print:summary">>
              \o (IF sslSuccess THEN <<"print:https-enabled">>
                  ELSE IF opts.ssl THEN <<"print:ssl-warning">> ELSE <<>>)
    /\ pc' = "returned"
    /\ UNCHANGED <<variant, opts, host, input, result, certbotCmd, fs, fs0, checks, nginxConfig, procs, link,
                   sslSuccess, exitCode, exitReason, run, prev>>

----------------------------------------------------------------------------
(* The same command line, run again *)

Restart ==
    /\ pc = "exited"
    /\ run < MaxRuns
    /\ \A p \in {"tee", "ln", "rm"} : procs[p].st # "running"
    /\ run' = run + 1
    /\ prev' = [config |-> nginxConfig, exitCode |-> exitCode, fs |-> fs]
    /\ fs0' = fs
    /\ pc' = "start"
    /\ checks' = <<>>
    /\ nginxConfig' = NoConfig
    /\ procs' = NoProcs
    /\ link' = NoLink
    /\ log' = <<>>
    /\ sslSuccess' = FALSE
    /\ exitCode' = 0
    /\ exitReason' = Undefined
    /\ certbotCmd' = NoCommand
    /\ UNCHANGED <<variant, opts, host, input, result, fs>>

Next ==
    \/ SystemCheck
    \/ ReportChecks
    \/ StartP2
    \/ Validate
    \/ DryRunListing
    \/ ConflictCheck
    \/ WriteSpawn
    \/ TeeChild
    \/ WriteDone
    \/ LinkSpawn
    \/ LnChild
    \/ LnClose
    \/ RmChild
    \/ RmClose
    \/ WriteSync
    \/ LinkSync
    \/ NginxTestCli
    \/ NginxTestSync
    \/ Reload
    \/ SetupSSL
    \/ Summary
    \/ NaturalExit
    \/ Restart

Spec == Init /\ [][Next]_vars

----------------------------------------------------------------------------
(* Properties of the orchestrator *)

\* what the run has recorded so far
InLog(e) == \E i \in 1..Len(log) : log[i] = e

\* the position in the log of the first e, 0 if there is none
FirstIndex(e) ==
    IF InLog(e) THEN CHOOSE i \in 1..Len(log) :
                        log[i] = e /\ \A j \in 1..(i - 1) : log[j] # e
    ELSE 0

\* C1: in bin/cli.js, when `nginx -t` fails after the available file was
\* written and the link step was started, the process ends with exit status 1
\* and neither the available file nor the enabled symlink of the domain exists.
C1_TestFailureRollsBack ==
    (variant = "cli" /\ pc = "exited" /\ exitReason = "nginx-t")
        => /\ exitCode = 1
           /\ fs.site[sitesAvailable].kind = "absent"
           /\ fs.site[sitesEnabled].kind = "absent"

\* the request leaves the file system alone: no directory, nginx.conf, backup
\* or site entry differs from what the run found
FsUntouched == fs = fs0

\* what a dry run may record: the report of the checks and the listing
DryRunEvents == {"print:checks", "print:dry-run", "print:would-reload"}

\* C2: in bin/cli.js a run with dry-run set never creates, modifies or deletes
\* a file-system object, starts no child process (tee, ln, rm) and runs neither
\* nginx -t, a reload, a package manager nor certbot, whatever the other flags.
C2_DryRunFrame ==
    (variant = "cli" /\ opts.dryRun)
        => /\ FsUntouched
           /\ procs = NoProcs
           /\ \A i \in 1..Len(log) : log[i] \in DryRunEvents

\* a dry run with --yes, --ssl and --force on a machine without
\* sites-available and without the include directive, gone through to its end
C2_Witness ==
    /\ variant = "cli" /\ opts.dryRun /\ opts.yes /\ opts.ssl /\ opts.force
    /\ fs0.nginxDir /\ ~fs0.availDir /\ fs0.conf = Conf(ConfNoInclude)
    /\ pc = "exited" /\ exitReason = "done"
    /\ InLog("print:dry-run")

\* C3: in bin/cli.js every run that prints the success summary ends with the
\* available path a regular file holding the rendered configuration and the
\* enabled path a symlink to it.
C3_SummaryImpliesArtifacts ==
    (variant = "cli" /\ pc = "exited" /\ InLog("print:summary"))
        => /\ fs.site[sitesAvailable] = File(nginxConfig)
           /\ fs.site[sitesEnabled] = Symlink(sitesAvailable)

\* C4: in bin/cli.js the steps are strictly sequential: the write has completed
\* before the link is started, and the link operation has completed and
\* reported its outcome to its callback before nginx -t is started.
C4_StepsSequential ==
    variant = "cli"
        => /\ InLog("spawn:ln") => procs.tee.st = "handled"
           /\ InLog("exec:nginx-t")
                 => /\ FirstIndex("callback:null") > 0
                    /\ FirstIndex("callback:null") < FirstIndex("exec:nginx-t")

\* the run was ended by input validation or by the report of a failed
\* system check
RejectedEarly ==
    /\ pc = "exited"
    /\ exitReason \in {"domain", "port", "email-required", "email-invalid", "syscheck"}

\* C5 as the specification words it: in bin/cli.js a run that ends with a
\* validation error or a failed system check has performed no side effect: no
\* directory created, nginx.conf neither modified nor backed up, no site
\* artifact written.
C5_RejectedRunHasNoEffect ==
    (variant = "cli" /\ RejectedEarly) => FsUntouched

\* what the system check may record: the questions put to askUser, the
\* directory creations, the backup and rewrite of nginx.conf, the report
CheckEvents ==
    {"ask:yes", "ask:no", "mkdir", "write:backup", "write:nginx.conf", "print:checks"}

\* every change recorded in the log follows a yes from askUser: a mkdir and a
\* backup come right after the yes, the rewrite of nginx.conf after its backup
EffectsWereAgreed ==
    \A i \in 1..Len(log) :
        /\ log[i] \in {"mkdir", "write:backup"} => (i > 1 /\ log[i - 1] = "ask:yes")
        /\ log[i] = "write:nginx.conf" => (i > 1 /\ log[i - 1] = "write:backup")

\* C5: in bin/cli.js a run that ends with a validation error or a failed
\* system check has written no site artifact, started no child process and run
\* no external command; all it can have changed is what the system check
\* changes after askUser returned true: a missing sites-available or
\* sites-enabled directory created, nginx.conf backed up and given the include.
C5_RejectedRunOnlyAgreedCheckEffects ==
    (variant = "cli" /\ RejectedEarly)
        => /\ fs.site = fs0.site
           /\ procs = NoProcs
           /\ \A i \in 1..Len(log) : log[i] \in CheckEvents
           /\ EffectsWereAgreed
           /\ fs.nginxDir = fs0.nginxDir
           /\ fs0.availDir => fs.availDir
           /\ fs0.enabledDir => fs.enabledDir
           /\ fs # fs0 => (InLog("mkdir") \/ InLog("write:backup"))

\* a request with an invalid domain, rejected after the system check had
\* created a directory
C5_Witness ==
    /\ variant = "cli"
    /\ pc = "exited" /\ exitReason = "domain"
    /\ ~fs0.availDir /\ fs.availDir
    /\ InLog("mkdir")

\* the certificate step was run and did not succeed
CertificateFailed == opts.ssl /\ InLog("exec:which-certbot") /\ ~sslSuccess

\* C6: in bin/cli.js, when ssl is requested and the certificate step fails, the
\* run still reaches the summary, the available file and the enabled symlink
\* are as the earlier steps made them, and the process ends with status 0.
C6_CertificateFailureNotFatal ==
    (variant = "cli" /\ pc = "exited" /\ CertificateFailed)
        => /\ InLog("print:summary")
           /\ fs.site[sitesAvailable] = File(nginxConfig)
           /\ fs.site[sitesEnabled] = Symlink(sitesAvailable)
           /\ exitCode = 0

\* the link step was started and its last `ln` did not exit 0
LinkFailed == procs.ln.st # "none" /\ procs.ln.code # "0"

\* C7: in bin/cli.js the exit status is 0 for every run in which validation,
\* system check, write, link and configuration test all succeed (the summary
\* is printed and ln exited 0) and for every accepted dry run, and 1 for every
\* run in which validation, system check, write, link or test fails.
C7_ExitStatus ==
    (variant = "cli" /\ pc = "exited")
        => /\ (opts.dryRun /\ InLog("print:dry-run")) => exitCode = 0
           /\ (InLog("print:summary") /\ ~LinkFailed) => exitCode = 0
           /\ (RejectedEarly
               \/ exitReason \in {"write-stderr", "write-failed", "nginx-t"}
               \/ LinkFailed) => exitCode = 1

\* how far a run gets without passing the conflict check
BeforeWrite == {"start", "report", "validate", "rendered", "returned", "exited"}

\* C8: in every variant (bin/cli.js, part_001, part_002), a run that finds the
\* available file of the domain existing while force is not set never gets
\* past the conflict check: the available and enabled entries stay as they
\* were, and no nginx -t, reload or certbot is run.
C8_ExistingFileWithoutForce ==
    (SiteExists(fs0, sitesAvailable) /\ ~opts.force)
        => /\ pc \in BeforeWrite
           /\ fs.site = fs0.site
           /\ ~InLog("exec:nginx-t") /\ ~InLog("exec:reload")
           /\ ~InLog("exec:certbot") /\ ~InLog("exec:which-certbot")
           /\ procs = NoProcs

\* a run of part_001 with ssl requested that stopped at the existing file
C8_Witness ==
    /\ variant = "p1" /\ opts.ssl /\ ~opts.force /\ ~opts.dryRun
    /\ fs0.site[sitesAvailable] = File(OldConfig)
    /\ pc = "exited" /\ exitReason = "exists"

\* C9 as the specification words it: in bin/cli.js, when the available file
\* exists and force is not set, askUser is consulted, and a decline ends the
\* run with a user-cancelled status that is not the error status 1.
C9_DeclineIsNotAnError ==
    (variant = "cli" /\ pc = "exited" /\ exitReason = "exists")
        => /\ InLog("ask:no")
           /\ exitCode # 1

\* C9: in bin/cli.js, when the available file exists and force is not set,
\* askUser is not consulted about the overwrite: right after the report of the
\* checks the run ends with status 1, the status of an error; a run goes on to
\* overwrite an existing file exactly when force is set.
C9_ExistingFileNeedsForce ==
    variant = "cli"
        => /\ (pc = "exited" /\ exitReason = "exists")
                 => /\ exitCode = 1
                    /\ ~opts.force
                    /\ log # <<>> /\ log[Len(log)] = "print:checks"
           /\ (SiteExists(fs0, sitesAvailable) /\ InLog("spawn:tee")) => opts.force
           /\ (SiteExists(fs0, sitesAvailable) /\ ~opts.dryRun /\ opts.force
               /\ pc = "exited" /\ ~RejectedEarly) => InLog("spawn:tee")

\* a run of bin/cli.js ended by the existing file
C9_Witness ==
    /\ variant = "cli" /\ ~opts.force
    /\ fs0.site[sitesAvailable] = File(OldConfig)
    /\ pc = "exited" /\ exitReason = "exists" /\ exitCode = 1

\* the rendering without its timestamp
WithoutTimestamp(c) == [c EXCEPT !.ts = 0]

\* the second of two runs of part_001 with force that both went through
SecondForcedRunDone ==
    /\ variant = "p1" /\ opts.force /\ ~opts.dryRun
    /\ run = 2 /\ prev.exitCode = 0 /\ prev.config # NoConfig
    /\ pc = "exited" /\ exitReason = "done"

\* C10: in part_001, running twice with the same domain, port, template and
\* www setting and with force, the test passing both times, leaves the
\* available file with the content of the first run apart from the timestamp,
\* and the enabled entry a symlink to the available file.
C10_ForcedRerunIdempotent ==
    SecondForcedRunDone
        => /\ prev.fs.site[sitesAvailable] = File(prev.config)
           /\ fs.site[sitesAvailable] = File(nginxConfig)
           /\ WithoutTimestamp(nginxConfig) = WithoutTimestamp(prev.config)
           /\ fs.site[sitesEnabled] = Symlink(sitesAvailable)

\* such a second run with the api template; the two renderings differ, in
\* their timestamp only
C10_Witness ==
    /\ SecondForcedRunDone
    /\ opts.template = "api"
    /\ nginxConfig # prev.config
    /\ fs.site[sitesEnabled] = Symlink(sitesAvailable)

\* how many times e was recorded
Count(e) == Cardinality({i \in 1..Len(log) : log[i] = e})

\* the events of the TLS step
SslEvents == {"exec:which-certbot", "exec:apt-install", "exec:yum-install",
              "exec:certbot", "exec:ginx-t"}

\* C11: in bin/cli.js, in every run without dry-run in which the
\* configuration test passes and reload was not skipped (no --no-reload), the
\* reload command is invoked exactly once, after the test and before the TLS
\* step.
C11_ReloadsOnceAfterTest ==
    (variant = "cli" /\ opts.reload /\ InLog("exec:nginx-t")
     /\ pc \in {"summary", "returned", "exited"} /\ exitReason # "nginx-t")
        => /\ Count("exec:reload") = 1
           /\ FirstIndex("exec:nginx-t") < FirstIndex("exec:reload")
           /\ \A i \in 1..Len(log) :
                 log[i] \in SslEvents => FirstIndex("exec:reload") < i

\* C12: in part_001, when the command line holds --no-reload (commander then
\* sets options.reload to false), `nginx -s reload` is never invoked and the
\* dry-run listing announces no reload.
C12_NoReloadSkipsReload ==
    (variant = "p1" /\ ~opts.reload)
        => /\ ~InLog("exec:reload")
           /\ ~InLog("print:would-reload")

\* C13: in part_001 and in the first program of part_002, a reload that fails
\* after a passed test is not fatal: the available file and the enabled
\* symlink stay, the process does not exit because of it, and a run that has
\* ended went through the TLS step to the summary.
C13_ReloadFailureNotFatal ==
    (variant \in {"p1", "p2"} /\ InLog("print:reload-failed"))
        => /\ fs.site[sitesAvailable] = File(nginxConfig)
           /\ fs.site[sitesEnabled] = Symlink(sitesAvailable)
           /\ exitReason # "reload"
           /\ pc = "exited" => (InLog("print:summary") /\ exitCode = 0)

\* the tee child has ended and its handlers have run: it exited non-zero,
\* could not be spawned, or wrote to stderr
WriteFailed ==
    /\ procs.tee.st = "handled"
    /\ (procs.tee.code # "0" \/ procs.tee.stderr)

\* C14: in bin/cli.js, if the privileged write fails (sudo tee exits non-zero,
\* emits an error event, or writes to stderr), the run ends with exit status 1
\* and `sudo ln -s` is never started in that run; nor is it started while the
\* write is still under way.
C14_WriteFailureIsFatal ==
    variant = "cli"
        => /\ WriteFailed
                 => /\ pc = "exited" /\ exitCode = 1
                    /\ exitReason \in {"write-stderr", "write-failed"}
                    /\ ~InLog("spawn:ln") /\ procs.ln = NoProc
           /\ procs.tee.st \in {"running", "done"}
                 => (~InLog("spawn:ln") /\ procs.ln = NoProc)

\* a run ended by tee writing to stderr although it exited 0
C14_Witness ==
    /\ variant = "cli" /\ WriteFailed
    /\ procs.tee.code = "0" /\ procs.tee.stderr
    /\ pc = "exited" /\ exitCode = 1

\* the run ended because the link step failed after the write had succeeded
EndedByLinkFailure ==
    /\ pc = "exited"
    /\ \/ variant = "p1" /\ exitReason = "error" /\ InLog("write:available")
       \/ variant = "cli" /\ InLog("print:written") /\ LinkFailed

\* C15: in bin/cli.js and in part_001, if creating the enabled symlink fails
\* after the available file was written in the same run, the process ends with
\* the just-written available file removed.
C15_LinkFailureRollsBack ==
    EndedByLinkFailure => fs.site[sitesAvailable] # File(nginxConfig)

\* C16: sudoLinkFsFile, when ln reports that the link path exists, removes the
\* path and retries the link exactly once: at most one rm and two ln are
\* spawned, and a retry that fails again is reported to the callback as an
\* error.
C16_RetriesExactlyOnce ==
    variant = "cli"
        => /\ Count("spawn:rm") <= 1
           /\ Count("spawn:ln") <= 2
           /\ (Count("spawn:ln") = 2 /\ procs.ln.st = "handled"
               /\ procs.ln.code # "0") => InLog("callback:error")

\* C17: while sudoWriteFsFile writes, and after it has failed, the target
\* holds what it held before the run or the complete new content, never
\* something truncated.
C17_WriteIsAtomic ==
    (variant = "cli" /\ InLog("spawn:tee") /\ ~InLog("spawn:ln"))
        => fs.site[sitesAvailable] \in {fs0.site[sitesAvailable], File(nginxConfig)}

\* C18: sudoWriteFsFile reports one outcome, decided by the exit code alone:
\* success (the awaiting flow goes on, the callback gets no error) exactly
\* when tee exits 0, an error exactly when it exits non-zero or cannot be
\* spawned.
C18_OutcomeFromExitCode ==
    (variant = "cli" /\ procs.tee.st = "handled")
        => /\ procs.tee.code = "0" <=> InLog("print:written")
           /\ procs.tee.code # "0"
                 <=> (pc = "exited" /\ ~InLog("print:written")
                      /\ exitReason \in {"write-stderr", "write-failed"})

\* a check that is an error whatever is answered: the platform, a missing
\* nginx binary, a missing /etc/nginx
CertainCheckError ==
    host.platform = "win32" \/ ~host.nginxInstalled \/ ~fs0.nginxDir

\* the run was ended by the report of the checks: they hold an error, dry-run
\* is not set, the report was the last thing done, and nothing was validated,
\* rendered or written for the site
AbortedByChecks ==
    /\ HasCheckError(checks) /\ ~opts.dryRun
    /\ pc = "exited" /\ exitCode = 1
    /\ log # <<>> /\ log[Len(log)] = "print:checks"
    /\ nginxConfig = NoConfig
    /\ fs.site = fs0.site /\ procs = NoProcs

\* the step taken from the report with an error among the checks
ReportStepOnError ==
    (variant = "cli" /\ pc = "report" /\ HasCheckError(checks))
        => /\ log' = Append(log, "print:checks")
           /\ fs' = fs /\ nginxConfig' = NoConfig /\ procs' = NoProcs
           /\ IF opts.dryRun
              THEN pc' = "validate" /\ exitCode' = exitCode
              ELSE pc' = "exited" /\ exitCode' = 1 /\ exitReason' = "syscheck"

\* what holds of a run of bin/cli.js whose checks hold an error
ChecksErrorOutcome ==
    variant = "cli"
        => /\ exitReason = "syscheck" => AbortedByChecks
           /\ (CertainCheckError /\ ~opts.dryRun /\ pc \notin {"start", "report"})
                 => (pc = "exited" /\ exitReason = "syscheck")
           /\ (CertainCheckError /\ opts.dryRun /\ pc = "exited")
                 => /\ exitReason # "syscheck"
                    /\ ValidationError(variant, opts) = ""
                          => (exitCode = 0 /\ InLog("print:dry-run"))

\* C19: in bin/cli.js, when a system check has status error: without dry-run
\* the run prints the checks and then exits 1, before validation, rendering
\* or any write of the site; with dry-run it goes on through validation and
\* the dry-run listing and does not exit 1 because of the checks.
C19_CheckErrorsAbortUnlessDryRun ==
    []ChecksErrorOutcome /\ [][ReportStepOnError]_vars

\* a dry run on a machine without nginx, listed to its end with status 0
C19_Witness ==
    /\ variant = "cli" /\ opts.dryRun /\ ~host.nginxInstalled
    /\ pc = "exited" /\ exitReason = "done" /\ exitCode = 0
    /\ InLog("print:dry-run")

\* C20: in checkSystemRequirements, nginx.conf is rewritten only right after
\* a backup holding the content it had was written in the same run; if the
\* backup cannot be written, nginx.conf stays as it was and the check is an
\* error.
C20_BackupBeforeRewrite ==
    variant \in {"cli", "p1"}
        => /\ \A i \in 1..Len(log) :
                 log[i] = "write:nginx.conf" => (i > 1 /\ log[i - 1] = "write:backup")
           /\ InLog("write:backup")
                 => fs.backups = Append(fs0.backups, fs0.conf.text)
           /\ ~InLog("write:backup")
                 => (fs.conf = fs0.conf /\ fs.backups = fs0.backups)
           /\ (pc = "report" /\ log # <<>> /\ log[Len(log)] = "ask:yes"
               /\ fs.availDir /\ fs.enabledDir)
                 => /\ fs.conf = fs0.conf
                    /\ checks[Len(checks)] = Check("Nginx include directive",
                                                   "error", "Failed to update nginx.conf")

\* nginx.conf was given the include after its backup was written
C20_Witness ==
    /\ variant = "cli"
    /\ InLog("write:nginx.conf")
    /\ fs.conf # fs0.conf
    /\ fs.backups = <<fs0.conf.text>>

----------------------------------------------------------------------------
(* Properties of the TLS step *)

\* C21: in bin/cli.js certbot is executed at most once in a run, and every
\* command of the TLS step (which certbot, a package manager, certbot) is
\* executed only when --ssl was given, the run is not a dry run, and the
\* configuration test of the same run has been executed before it and has
\* passed; without --ssl none of them is ever executed.
C21_CertbotOnlyWithSsl ==
    variant = "cli"
        => /\ Count("exec:certbot") <= 1
           /\ \A i \in 1..Len(log) :
                 log[i] \in SslEvents
                    => /\ opts.ssl
                       /\ ~opts.dryRun
                       /\ InLog("exec:nginx-t")
                       /\ FirstIndex("exec:nginx-t") < i
                       /\ exitReason # "nginx-t"

\* a run of bin/cli.js with --ssl that installed certbot and executed it
C21_Witness ==
    /\ variant = "cli"
    /\ opts.ssl
    /\ InLog("exec:apt-install")
    /\ Count("exec:certbot") = 1
    /\ pc = "returned"

DebianProbes == {"probe:debian:yes", "probe:debian:no"}
RedhatProbes == {"probe:redhat:yes", "probe:redhat:no"}

\* C23: in setupSSL of bin/cli.js the markers are probed only after `which
\* certbot` failed, /etc/debian_version first and /etc/redhat-release only if
\* that is missing; apt is used for the first and yum for the second; and if
\* neither exists or the installation fails, certbot is never executed,
\* setupSSL returns false, and the run goes on to its summary.
C23_InstallFailureNotFatal ==
    variant = "cli"
        => /\ \A i \in 1..Len(log) :
                 /\ log[i] \in DebianProbes
                      => i > 1 /\ log[i - 1] = "exec:which-certbot"
                 /\ log[i] \in RedhatProbes
                      => i > 1 /\ log[i - 1] = "probe:debian:no"
                 /\ log[i] = "exec:apt-install"
                      => i > 1 /\ log[i - 1] = "probe:debian:yes"
                 /\ log[i] = "exec:yum-install"
                      => i > 1 /\ log[i - 1] = "probe:redhat:yes"
                 /\ log[i] = "probe:redhat:no"
                      => i < Len(log) /\ log[i + 1] = "print:install-failed"
           /\ InLog("print:install-failed")
                 => /\ ~InLog("exec:certbot")
                    /\ certbotCmd = NoCommand
                    /\ ~sslSuccess
                    /\ pc \in {"summary", "returned", "exited"}
                    /\ exitReason \notin {"error", "nginx-t", "reload"}
                    /\ pc # "summary"
                          => InLog("print:summary") /\ InLog("print:ssl-warning")

\* bin/cli.js found the redhat marker, yum failed, and the run printed its
\* summary
C23_Witness ==
    /\ variant = "cli"
    /\ InLog("probe:redhat:yes")
    /\ InLog("exec:yum-install")
    /\ InLog("print:install-failed")
    /\ InLog("print:summary")

----------------------------------------------------------------------------
(* The validators and askUser, called on their own *)

\* longest generated argument
MaxLen == 4

Alphabet == {"a", "0", "1", "-", ".", " ", "@"}

\* every string over Alphabet of at most n characters
Strings(n) == UNION {[1..k -> Alphabet] : k \in 0..n}

DomainExamples ==
    {<<"e", "x", "a", "m", "p", "l", "e", ".", "c", "o", "m">>,
     <<"a", "p", "i", ".", "e", "x", "a", "m", "p", "l", "e", ".", "c", "o", ".",
       "u", "k">>,
     <<"-", "b", "a", "d", ".", "c", "o", "m">>,
     <<"n", "o", " ", "s", "p", "a", "c", "e", "s", ".", "c", "o", "m">>,
     <<"b", "a", "d", "-", ".", "c", "o", "m">>,
     <<"a", ".", "c", "o", "m">>,
     <<>>}

PortExamples ==
    {<<"1">>, <<"6", "5", "5", "3", "5">>, <<"0">>, <<"6", "5", "5", "3", "6">>,
     <<"-", "1">>, <<"a", "b", "c">>, <<"8", "0", "a", "b", "c">>,
     <<"8", "0", "8", "0", " ", "x">>}

EmailExamples ==
    {<<"a", "@", "b", ".", "c", "o", "m">>, <<"a", "@", "b">>,
     <<"n", "o", "a", "t", "s", "i", "g", "n", ".", "c", "o", "m">>,
     <<"a", " ", "@", "b", ".", "c", "o", "m">>}

\* what may be typed at the prompt
AnswerTexts ==
    Answers \cup {<<"Y", "E", "S">>, <<"Y", "e", "s">>, <<"n", "o">>, <<"N">>,
                  <<"y", "e", "s", "s">>, <<"o", "k">>}

Texts == Strings(MaxLen) \cup DomainExamples \cup PortExamples \cup EmailExamples

Validators == {"validateDomain", "validatePort", "validateEmail"}
AskUsers == {"askUser", "askUser.helper"}

\* the calls: a validator with a string, an askUser with the yes option and
\* the answer that will be typed
FunctionInputs ==
    {[fn |-> f, text |-> t, yes |-> FALSE] : f \in Validators, t \in Texts}
    \cup {[fn |-> f, text |-> a, yes |-> y]
            : f \in AskUsers, a \in AnswerTexts, y \in BOOLEAN}

\* a returned boolean
Returned(b) == [type |-> "boolean", value |-> b, read |-> FALSE]

\* askUser of bin/cli.js: what the promise it returns resolves to, and whether
\* the answer had been read by then
AskUserCli(yes, answer) ==
    IF yes
    THEN [type |-> "boolean", value |-> TRUE, read |-> FALSE]
    ELSE [type |-> "boolean", value |-> IsYes(answer), read |-> TRUE]

\* askUser of utils/ask.helper.js: with yes it returns true; otherwise it
\* registers the question's callback and falls off the end of the async
\* function, whose promise resolves to undefined before anything is typed;
\* the callback's return value goes to readline, which drops it
AskUserHelper(yes, answer) ==
    IF yes
    THEN [type |-> "boolean", value |-> TRUE, read |-> FALSE]
    ELSE [type |-> "undefined", value |-> FALSE, read |-> FALSE]

\* validators/system.validator.js awaits askUser of utils/ask.helper.js and
\* tests the value for truth: true with yes, undefined otherwise, whatever is
\* typed later
ValidatorAsk(o) ==
    LET r == AskUserHelper(o.yes, <<>>)
    IN r.type = "boolean" /\ r.value

\* what the question leaves in the log
ValidatorAsked(o) == IF ValidatorAsk(o) THEN "ask:yes" ELSE "ask:unanswered"

\* sudoCreateFileOrFolder(nginxConfigDir, "folder", callback), required from
\* utils/file.helper: the folder is created, or the callback gets an error
\* and exits the process, or (the module not exporting the name) the call
\* throws a TypeError
sudoCreateFileOrFolder(f) ==
    {Outcome([f EXCEPT !.nginxDir = TRUE], <<>>, <<"mkdir">>),
     Outcome(f, <<>>, <<"exit:1">>),
     Outcome(f, <<>>, <<"throw:TypeError">>)}

\* the checks up to `which nginx` in system.validator.js, on a linux host
ValidatorEnvChecks(h) ==
    <<Check("Operating System", "ok", h.platform)>>
    \o (IF ~h.isRoot
        THEN <<Check("Permissions", "warning", "Not running as root")>>
        ELSE <<>>)
    \o <<IF h.nginxInstalled
         THEN Check("Nginx", "ok", "Installed")
         ELSE Check("Nginx", "error", "Not installed")>>

\* /etc/nginx is missing: the question is put whether or not dry-run is set,
\* and a yes goes on to create the folder; the function then returns with
\* the error check unless the process was ended
ValidatorNginxDirMissing(f, o, h) ==
    LET notFound == ValidatorEnvChecks(h)
                    \o <<Check("Nginx Configuration", "error",
                               "Nginx config directory not found")>>
    IN IF ValidatorAsk(o)
       THEN {Outcome(c.fs,
                     IF c.log = <<"mkdir">> THEN notFound ELSE <<>>,
                     <<"ask:yes">> \o c.log) : c \in sudoCreateFileOrFolder(f)}
       ELSE {Outcome(f, notFound, <<"ask:unanswered">>)}

\* the sites-available and sites-enabled checks of system.validator.js
ValidatorDirCheck(f, o, dir, name) ==
    IF f[dir]
    THEN {Outcome(f, <<Check(name, "ok", "Directory exists")>>, <<>>)}
    ELSE IF o.dryRun
    THEN {Outcome(f, <<Check(name, "warning", "Directory missing (would create)")>>, <<>>)}
    ELSE IF ValidatorAsk(o)
    THEN {Outcome([f EXCEPT ![dir] = TRUE],
                  <<Check(name, "ok", "Directory created")>>,
                  <<"ask:yes", "mkdir">>),
          Outcome(f, <<Check(name, "error", "Failed to create directory")>>,
                  <<"ask:yes">>)}
    ELSE {Outcome(f, <<Check(name, "error", "Directory missing and not created")>>,
                  <<"ask:unanswered">>)}

\* the include-directive check of system.validator.js
ValidatorIncludeCheck(f, o) ==
    LET name == "Nginx include directive"
        nginxConf == f.conf.text
        updatedConf == AddInclude(nginxConf)
        backedUp == [f EXCEPT !.backups = Append(@, nginxConf)]
    IN IF ~f.conf.exists
       THEN {Outcome(f, <<>>, <<>>)}
       ELSE {Outcome(f, <<Check(name, "error", "Cannot read nginx.conf")>>, <<>>)}
            \cup
            (IF HasInclude(nginxConf)
             THEN {Outcome(f, <<Check(name, "ok", "Present in nginx.conf")>>, <<>>)}
             ELSE IF o.dryRun
             THEN {Outcome(f, <<Check(name, "warning", "sites-enabled include missing (would add)")>>, <<>>)}
             ELSE IF ValidatorAsk(o)
             THEN {Outcome([backedUp EXCEPT !.conf = Conf(updatedConf)],
                           <<Check(name, "ok", "Added to nginx.conf")>>,
                           <<"ask:yes", "write:backup", "write:nginx.conf">>),
                   Outcome(backedUp,
                           <<Check(name, "error", "Failed to update nginx.conf")>>,
                           <<"ask:yes", "write:backup">>),
                   Outcome(f,
                           <<Check(name, "error", "Failed to update nginx.conf")>>,
                           <<"ask:yes">>)}
             ELSE {Outcome(f, <<Check(name, "warning", "Include directive not added")>>,
                           <<"ask:unanswered">>)})

\* checkSystemRequirements(options) of validators/system.validator.js: every
\* (filesystem, checks, effects) it may end with
ValidatorCheckSystemRequirements(f, o, h) ==
    IF h.platform # "linux"
    THEN {Outcome(f, <<Check("Operating System", "error",
                             "These operating system is not supported")>>, <<>>)}
    ELSE IF ~f.nginxDir
    THEN ValidatorNginxDirMissing(f, o, h)
    ELSE UNION {UNION {
             {Outcome(c.fs, ValidatorEnvChecks(h) \o a.checks \o b.checks \o c.checks,
                      a.log \o b.log \o c.log)
              : c \in ValidatorIncludeCheck(b.fs, o)}
             : b \in ValidatorDirCheck(a.fs, o, "enabledDir", "Nginx sites-enabled")}
             : a \in ValidatorDirCheck(f, o, "availDir", "Nginx sites-available")}

\* the options checkSystemRequirements reads: dryRun and yes
ValidatorOptions == {o \in PlainOptions : o.domain = DomainGood}

IdleFs == CHOOSE f \in ReadyFs : f \in FreshFs
IdleOptions == CHOOSE o \in PlainOptions : o.domain = DomainGood /\ ~o.dryRun /\ ~o.yes

\* no program runs: only the called function acts
\* a validator or an askUser is called: no program runs
PureCall ==
    /\ input \in FunctionInputs
    /\ opts = IdleOptions
    /\ host = ReadyHost
    /\ fs = IdleFs

\* checkSystemRequirements(options) is called on some machine
SystemCall ==
    /\ opts \in ValidatorOptions
    /\ input = [fn |-> "checkSystemRequirements", text |-> <<>>, yes |-> opts.yes]
    /\ host \in Hosts
    /\ fs \in InitialFs

FunctionInit ==
    /\ (PureCall \/ SystemCall)
    /\ result = NoResult
    /\ pc = "call"
    /\ variant = "cli"
    /\ fs0 = fs
    /\ checks = <<>>
    /\ nginxConfig = NoConfig
    /\ procs = NoProcs
    /\ link = NoLink
    /\ log = <<>>
    /\ sslSuccess = FALSE
    /\ exitCode = 0
    /\ exitReason = Undefined
    /\ run = 1
    /\ prev = NoPrev
    /\ certbotCmd = NoCommand

\* the call returns r
Deliver(r) ==
    /\ pc = "call"
    /\ result' = r
    /\ pc' = "called"
    /\ UNCHANGED <<variant, opts, host, input, certbotCmd, fs, fs0, checks,
                   nginxConfig, procs, link, log, sslSuccess, exitCode,
                   exitReason, run, prev>>

CallValidateDomain ==
    /\ input.fn = "validateDomain"
    /\ Deliver(Returned(validateDomain(input.text)))

CallValidatePort ==
    /\ input.fn = "validatePort"
    /\ Deliver(Returned(validatePort(input.text)))

CallValidateEmail ==
    /\ input.fn = "validateEmail"
    /\ Deliver(Returned(validateEmail(input.text)))

CallAskUser ==
    /\ input.fn = "askUser"
    /\ Deliver(AskUserCli(input.yes, input.text))

CallAskUserHelper ==
    /\ input.fn = "askUser.helper"
    /\ Deliver(AskUserHelper(input.yes, input.text))

\* the function returns its checks, ends the process, or throws
CallCheckSystemRequirements ==
    /\ pc = "call"
    /\ input.fn = "checkSystemRequirements"
    /\ \E r \in ValidatorCheckSystemRequirements(fs, opts, host) :
          /\ fs' = r.fs
          /\ checks' = r.checks
          /\ log' = log \o r.log
    /\ result' = [type |-> "checks", value |-> ~HasCheckError(checks'), read |-> FALSE]
    /\ pc' = "called"
    /\ UNCHANGED <<variant, opts, host, input, certbotCmd, fs0, nginxConfig, procs,
                   link, sslSuccess, exitCode, exitReason, run, prev>>

FunctionNext ==
    \/ CallCheckSystemRequirements
    \/ CallValidateDomain
    \/ CallValidatePort
    \/ CallValidateEmail
    \/ CallAskUser
    \/ CallAskUserHelper

FunctionSpec == FunctionInit /\ [][FunctionNext]_vars

\* the call of fn has returned
Called(fn) == input.fn = fn /\ pc = "called"

HasSpace(t) == \E i \in 1..Len(t) : t[i] = " "

\* some dot-separated label of t starts or ends with a hyphen
HasHyphenEdge(t) ==
    \E i \in 1..Len(SplitDot(t)) :
        LET l == SplitDot(t)[i]
        IN l # <<>> /\ (l[1] = "-" \/ l[Len(l)] = "-")

\* C24: validateDomain accepts "example.com" and "api.example.co.uk", rejects
\* "-bad.com", "no spaces.com" and the empty string, and rejects every string
\* that contains a space or has a label starting or ending with a hyphen.
C24_ValidateDomain ==
    Called("validateDomain")
        => /\ input.text \in {<<"e", "x", "a", "m", "p", "l", "e", ".", "c", "o", "m">>,
                              <<"a", "p", "i", ".", "e", "x", "a", "m", "p", "l", "e",
                                ".", "c", "o", ".", "u", "k">>}
                 => result.value
           /\ input.text \in {<<"-", "b", "a", "d", ".", "c", "o", "m">>,
                              <<"n", "o", " ", "s", "p", "a", "c", "e", "s", ".",
                                "c", "o", "m">>,
                              <<>>}
                 => ~result.value
           /\ (HasSpace(input.text) \/ HasHyphenEdge(input.text)) => ~result.value

\* a generated domain whose label ends with a hyphen was rejected
C24_Witness ==
    /\ Called("validateDomain")
    /\ input.text = <<"a", "a", "-">>
    /\ ~result.value

\* "api.example.co.uk" was accepted
C24_WitnessAccepted ==
    /\ Called("validateDomain")
    /\ Len(input.text) = 17
    /\ result.value

RECURSIVE DropTrailingSpaces(_)
DropTrailingSpaces(t) ==
    IF t # <<>> /\ t[Len(t)] = " "
    THEN DropTrailingSpaces(SubSeq(t, 1, Len(t) - 1))
    ELSE t

\* t is a decimal numeral: digits only, after an optional sign, blanks around
\* it allowed
IsNumeral(t) ==
    LET u == DropTrailingSpaces(SkipSpaces(t))
        w == IF u # <<>> /\ u[1] \in {"-", "+"} THEN Tail(u) ELSE u
    IN w # <<>> /\ \A i \in 1..Len(w) : w[i] \in Digits

\* t denotes an integer in 1..65535
DenotesPort(t) ==
    /\ IsNumeral(t)
    /\ ParseInt(t).val >= 1
    /\ ParseInt(t).val <= 65535

\* C25: validatePort accepts exactly the inputs that denote an integer in
\* 1..65535: it accepts "1" and "65535", rejects "0", "65536" and "-1", and
\* rejects every input that is not a numeral, also one that begins with
\* digits.
C25_ValidatePortExact ==
    Called("validatePort")
        => /\ input.text \in {<<"1">>, <<"6", "5", "5", "3", "5">>} => result.value
           /\ input.text \in {<<"0">>, <<"6", "5", "5", "3", "6">>, <<"-", "1">>}
                 => ~result.value
           /\ result.value <=> DenotesPort(input.text)

\* the request asks for TLS without a usable email
EmailRejectable == opts.ssl /\ (opts.email = <<>> \/ ~validateEmail(opts.email))

\* C26: in bin/cli.js a request with --ssl whose email is missing or fails
\* validateEmail never gets as far as writing a site artifact and ends with
\* exit status 1; validateEmail accepts "a@b.com" and rejects "a@b" and
\* "noatsign.com"; and no request without --ssl is rejected for its email.
C26_EmailRequiredWithSsl ==
    /\ validateEmail(<<"a", "@", "b", ".", "c", "o", "m">>)
    /\ ~validateEmail(<<"a", "@", "b">>)
    /\ ~validateEmail(<<"n", "o", "a", "t", "s", "i", "g", "n", ".", "c", "o", "m">>)
    /\ variant = "cli"
         => /\ EmailRejectable
                 => /\ pc \in {"start", "report", "validate", "exited"}
                    /\ nginxConfig = NoConfig
                    /\ ~InLog("spawn:tee")
                    /\ fs.site = fs0.site
                    /\ pc = "exited" => exitCode = 1
            /\ exitReason \in {"email-required", "email-invalid"}
                 => opts.ssl /\ EmailRejectable /\ exitCode = 1

\* bin/cli.js rejected a request with --ssl for its email "a@b"
C26_Witness ==
    /\ variant = "cli"
    /\ opts.ssl
    /\ opts.email = EmailBad
    /\ pc = "exited"
    /\ exitReason = "email-invalid"
    /\ exitCode = 1

\* C27: getTemplate of bin/cli.js returns the rendering of the requested
\* kind: for api one with the CORS headers, for spa one with the try_files
\* fallback, and neither is the basic rendering.
C27_TemplateOfRequestedKind ==
    (variant = "cli" /\ nginxConfig # NoConfig)
        => /\ nginxConfig.kind = opts.template
           /\ opts.template = "api" => nginxConfig.cors
           /\ opts.template = "spa" => nginxConfig.tryFiles
           /\ opts.template # "basic"
                 => nginxConfig # getTemplateCli(opts, "basic", opts.domain, opts.port)

\* C28: askUser of bin/cli.js and askUser of utils/ask.helper.js yield a
\* boolean to the awaiting caller: true without reading the console when the
\* yes option is set, and otherwise true exactly when the typed answer is "y"
\* or "yes" in any case, delivered only after the answer has been read.
C28_AskUserYieldsBoolean ==
    (input.fn \in AskUsers /\ pc = "called")
        => /\ result.type = "boolean"
           /\ input.yes => result.value /\ ~result.read
           /\ ~input.yes
                 => /\ result.read
                    /\ result.value <=> ToLowerCase(input.text) \in {<<"y">>, <<"y", "e", "s">>}

----------------------------------------------------------------------------
(* Termination *)

\* the requests followed to their end: a valid domain and port, the basic
\* template, no --yes (the prepared machine asks nothing)
LiveOptions(v) ==
    {o \in OptionsOf(v) :
        /\ o.domain = DomainGood /\ o.port = PortGood /\ o.template = "basic"
        /\ o.reload /\ ~o.yes /\ o.email \in {<<>>, EmailGood}}

LiveInit ==
    /\ variant \in Variants
    /\ opts \in LiveOptions(variant)
    /\ host = ReadyHost
    /\ fs \in ReadyFs
    /\ FirstRun

\* what Node itself does: the steps of the main flow and the handlers of
\* events that have arrived.  The exits of the child processes (TeeChild,
\* LnChild, RmChild) are up to those processes.
NodeStep ==
    \/ SystemCheck
    \/ ReportChecks
    \/ StartP2
    \/ Validate
    \/ DryRunListing
    \/ ConflictCheck
    \/ WriteSpawn
    \/ WriteDone
    \/ LinkSpawn
    \/ LnClose
    \/ RmClose
    \/ WriteSync
    \/ LinkSync
    \/ NginxTestCli
    \/ NginxTestSync
    \/ Reload
    \/ SetupSSL
    \/ Summary
    \/ NaturalExit

\* Node keeps running whatever it can run; nothing is assumed of the children
LiveSpec == LiveInit /\ [][Next]_vars /\ WF_vars(NodeStep)

\* C29: every run of setupNginxServerBlock in bin/cli.js ends with a process
\* exit, also when a started external process never exits.
C29_RunTerminates == (variant = "cli" /\ pc = "start") ~> (pc = "exited")

----------------------------------------------------------------------------
(* Cleanup after a failed test *)

\* C30: in part_001, once a run has ended because the configuration test
\* failed, the enabled symlink and the available file are both gone or both
\* still there, also when an unlink of the cleanup fails, and the enabled
\* symlink does not remain pointing at the rejected available file.
C30_CleanupBothOrNeither ==
    (variant = "p1" /\ pc = "exited" /\ exitReason = "nginx-t")
        => /\ (fs.site[sitesAvailable] = Absent) <=> (fs.site[sitesEnabled] = Absent)
           /\ ~(/\ fs.site[sitesEnabled] = Symlink(sitesAvailable)
                /\ fs.site[sitesAvailable] = File(nginxConfig))

\* C31: in part_001, once a run has ended because the configuration test
\* failed and the cleanup has run, the available file and the enabled entry
\* of the domain are exactly what they were when the run started; a
\* configuration and symlink that --force replaced are back.
C31_RollbackRestores ==
    (variant = "p1" /\ pc = "exited" /\ exitReason = "nginx-t")
        => fs.site = fs0.site

----------------------------------------------------------------------------
(* The enabled entry *)

\* C32: in part_001 and bin/cli.js, an entry that is at
\* /etc/nginx/sites-enabled/<domain> when a run without --force starts is
\* neither removed nor replaced by that run (no step of either program asks
\* for a confirmation of the removal).
C32_EnabledEntryKeptWithoutForce ==
    (variant \in {"cli", "p1"} /\ ~opts.force /\ fs0.site[sitesEnabled] # Absent)
        => fs.site[sitesEnabled] = fs0.site[sitesEnabled]

----------------------------------------------------------------------------
(* checkSystemRequirements of validators/system.validator.js *)

----------------------------------------------------------------------------
(* Hostname syntax *)

\* l is a hostname label: 1 to 63 letters, digits and hyphens, no hyphen
\* first or last
IsHostLabel(l) ==
    /\ Len(l) >= 1
    /\ Len(l) <= 63
    /\ \A i \in 1..Len(l) : l[i] \in Letters \cup Digits \cup {"-"}
    /\ l[1] # "-"
    /\ l[Len(l)] # "-"

\* t is one or more such labels separated by dots
IsHostname(t) == \A i \in 1..Len(SplitDot(t)) : IsHostLabel(SplitDot(t)[i])

\* C34: validateDomain accepts exactly the syntactically valid hostnames,
\* one or more dot-separated labels of 1 to 63 letters, digits and hyphens
\* that neither start nor end with a hyphen, also those with a one-character
\* label such as "a.com".
C34_ValidateDomainIsHostname ==
    Called("validateDomain")
        => /\ result.value <=> IsHostname(input.text)
           /\ input.text = <<"a", ".", "c", "o", "m">> => result.value

----------------------------------------------------------------------------
(* sudoLinkFsFile's callback *)

\* how often sudoLinkFsFile has called its callback
CallbackCalls == Count("callback:null") + Count("callback:error")

\* C35: an invocation of sudoLinkFsFile calls its callback exactly once, for
\* every exit code of ln and of rm: when the process of bin/cli.js has ended
\* on its own, after the link step was started and every child has exited and
\* been handled, the callback has been called once, with null exactly if the
\* last ln exited 0.
C35_CallbackExactlyOnce ==
    (variant = "cli" /\ pc = "exited" /\ exitReason = "done" /\ InLog("spawn:ln"))
        => /\ CallbackCalls = 1
           /\ InLog("callback:null") <=> procs.ln.code = "0"

----------------------------------------------------------------------------
(* The result of setupSSL *)

\* the TLS step of this run is over
SslStepDone == opts.ssl /\ InLog("exec:which-certbot")

\* C36: in bin/cli.js, when certbot is there, has exited 0 and the
\* configuration it installed is valid, setupSSL returns true and the summary
\* reports HTTPS as enabled; it returns false only if certbot could not be
\* had, certbot failed, or the configuration is invalid.
C36_SetupSslReturnsTrue ==
    (variant = "cli" /\ SslStepDone)
        => /\ InLog("env:config-valid")
                => /\ sslSuccess
                   /\ InLog("print:summary") => InLog("print:https-enabled")
           /\ ~sslSuccess
                => \/ InLog("print:install-failed")
                   \/ InLog("exec:certbot") /\ ~InLog("exec:ginx-t")
                   \/ InLog("env:config-invalid")

----------------------------------------------------------------------------
(* The upstream port of the rendering *)

\* t is the decimal representation of an integer in 1..65535
IsPortNumeral(t) ==
    /\ t # <<>>
    /\ \A i \in 1..Len(t) : t[i] \in Digits
    /\ DigitsValue(t, 0) >= 1
    /\ DigitsValue(t, 0) <= 65535

\* C37: for every request that passes validatePort, the port that bin/cli.js
\* puts into the proxy_pass directive of the configuration it renders and
\* writes is the decimal representation of an integer in 1..65535.
C37_UpstreamPortIsNumeral ==
    (variant = "cli" /\ validatePort(opts.port))
        => /\ nginxConfig # NoConfig => IsPortNumeral(nginxConfig.port)
           /\ fs.site[sitesAvailable] = File(nginxConfig)
                 => IsPortNumeral(fs.site[sitesAvailable].content.port)

----------------------------------------------------------------------------
(* The rendering without TLS *)

\* C38: for a request without --ssl, the configuration that bin/cli.js
\* renders with the basic template and hands to the configuration test is
\* HTTP-only: no `listen 443 ssl`, and no certificate or Let's Encrypt file
\* is referenced.
C38_HttpOnlyWithoutSsl ==
    (variant = "cli" /\ ~opts.ssl /\ opts.template = "basic" /\ nginxConfig # NoConfig)
        => /\ ~nginxConfig.listen443
           /\ ~nginxConfig.certFiles

----------------------------------------------------------------------------
(* The include directive *)

\* the include-directive check was recorded with status ok
IncludeRecordedOk ==
    \E i \in 1..Len(checks) :
        checks[i].name = "Nginx include directive" /\ checks[i].status = "ok"

\* how many include directives for sites-enabled the text has
IncludeCount(text) == Cardinality({i \in 1..Len(text) : text[i] = "include"})

\* C39: in checkSystemRequirements of bin/cli.js, whenever the include check
\* is recorded with status ok, nginx.conf contains the include directive for
\* sites-enabled at that moment, and over repeated runs the directive is in
\* the file at most once, whatever nginx.conf held at first.
C39_IncludeOkMeansPresent ==
    variant = "cli"
        => /\ (pc = "report" /\ IncludeRecordedOk)
                 => fs.conf.exists /\ HasInclude(fs.conf.text)
           /\ fs.conf.exists => IncludeCount(fs.conf.text) <= 1

====
